---- MODULE Spec2Model ----
(***************************************************************************)
(* Model of the remediation decision engine of the Intelligent Server      *)
(* Monitoring Framework (python-framework/ai_code_learning_system.py):     *)
(* DeploymentEngine, AILearningEngine and AICodeFixingPlugin.              *)
(*                                                                         *)
(* The program runs on one asyncio event loop.  A coroutine runs without   *)
(* interruption until it awaits something that really suspends (a          *)
(* subprocess, a sleep); awaiting a coroutine that never suspends runs it  *)
(* inline.  Each action below is therefore the code between two such       *)
(* suspension points.                                                      *)
(*                                                                         *)
(* Probabilities (confidence, risk, success rate) are exact rationals      *)
(* <<p, q>>; inputs are given in permille.  Time is in minutes.            *)
(***************************************************************************)
EXTENDS Integers, Sequences, FiniteSets, TLC

VARIABLES
    now,                 \* datetime.now(), minutes since midnight of day 0
    safety_config,       \* DeploymentEngine safety settings
    active_deployments,  \* DeploymentEngine.active_deployments: id -> DeploymentRecord
    pc,                  \* position of each deploy_fix / execute_remediation task
    monitor,             \* position of each _monitor_deployment background task
    shutdown,            \* the event loop has been torn down
    ai_config,           \* AILearningEngine.config and thresholds
    interventions,       \* AILearningEngine.interventions (the log)
    pattern_success_rates, \* AILearningEngine.pattern_success_rates
    models,              \* AILearningEngine.models
    interventions_file,  \* interventions.json in model_dir
    call,                \* arguments of each task's call
    scheduler,           \* each framework's start_monitoring loop: is_running, position
    framework,           \* IntelligentMonitoringFramework: plugins, history, current cycle
    result               \* value returned to each task's caller

deploy_vars == <<safety_config, active_deployments, monitor>>
learning_vars == <<ai_config, interventions, pattern_success_rates, models, interventions_file>>
vars == <<now, safety_config, active_deployments, pc, monitor, shutdown,
          ai_config, interventions, pattern_success_rates, models,
          interventions_file, call, scheduler, framework, result>>

\* ------------------------------------------------------------------ bounds
MaxTasks == 2
MaxConcurrentLimit == 2
TestCommands == 2
MaxTicks == 1
TickMinutes == 30
MaxInterventions == 3
MaxRated == 6
MaxRecorded == 10
MaxPrior == 2
MaxCycles == 3
MaxRuns == 2

Tasks == 1..MaxTasks
NoValue == "None"

\* ------------------------------------------------------- program constants
MinutesPerHour == 60
HoursPerDay == 24
BusinessHoursStart == 9
BusinessHoursEnd == 17
DirectThreshold == 900
CanaryThreshold == 700
monitoring_period == 10
monitoring_interval == 1
Permille == 1000
MinTrainingData == 10
NoDeployment == 0

\* The confidence passed by the n-th deploy_fix call: one per release strategy.
DeployConfidences == <<950, 800, 650>>
ConfidenceOfCall(n) == DeployConfidences[((n - 1) % Len(DeployConfidences)) + 1]
StartTimes == {8 * MinutesPerHour + 30, 17 * MinutesPerHour + 30}

\* --------------------------------------------------------- DeploymentRecord
Terminal == {"completed", "failed", "rolled_back"}
Statuses == {"pending", "in_progress"} \cup Terminal

\* DeploymentRecord(...) as built by deploy_fix.  trail and ops are
\* observations: every value assigned to status, and every collaborator
\* operation invoked for the deployment, in order.
DeploymentRecord(id, strategy) ==
    [id |-> id, type |-> "ai_fix", strategy |-> strategy, status |-> "pending",
     test_results |-> NoValue, commit_hash |-> NoValue, metadata |-> {},
     trail |-> <<"pending">>, ops |-> <<>>, file |-> "original"]

SetStatus(dep, s) == [dep EXCEPT !.status = s, !.trail = Append(@, s)]
Invoke(dep, op) == [dep EXCEPT !.ops = Append(@, op)]
Note(dep, key) == [dep EXCEPT !.metadata = @ \cup {key}]
\* The content of the deployment's file (files_changed[0]): what it held
\* before the deployment, or the fix content.
Write(dep, content) == [dep EXCEPT !.file = content]

\* -------------------------------------------- monitoring cycle scheduler
\* IntelligentMonitoringFramework (main.py) and EnhancedMonitoringFramework
\* (enhanced_main.py), each with its own is_running flag and loop.
Frameworks == {"IntelligentMonitoringFramework", "EnhancedMonitoringFramework"}
CycleStages == {"collection", "history", "detection", "remediation", "reporting"}
NotStarted ==
    [is_running |-> FALSE, at |-> "not_started", cycles |-> 0, error |-> NoValue,
     errors |-> 0, stopped |-> FALSE]

\* ------------------------------------- IntelligentMonitoringFramework
\* self.plugins in registration order (_register_default_plugins).
Collectors == <<"system_metrics_collector", "log_file_collector">>
Detectors == <<"log_pattern_detector", "threshold_detector">>
Remediators == <<"system_remediation">>
HistoryCapacity == 1000

\* A metric value: a number, or None from a failed probe.
Number(v) == [kind |-> "number", v |-> v]
NoneMetric == [kind |-> "None", v |-> 0]
\* What a plugin call produced: a value, or an exception.
Returned(value) == [raised |-> FALSE, value |-> value]
Raised == [raised |-> TRUE, value |-> << >>]
NoReport == [printed |-> FALSE]

\* The framework after __init__ and plugin registration: n cycles begun,
\* emitted reports printed, trace the plugin calls of the current cycle.
NewFramework ==
    [at |-> "idle", n |-> 0, metrics_history |-> << >>, current_metrics |-> << >>,
     problems |-> << >>, emitted |-> 0, report |-> NoReport, trace |-> << >>,
     initialized |-> << >>, cleaned |-> << >>]

current_hour == (now \div MinutesPerHour) % HoursPerDay

\* config['deployment_strategies'], as the framework configuration sets it.
deployment_strategies ==
    [low_risk |-> "direct_deployment", medium_risk |-> "canary_deployment",
     high_risk |-> "blue_green_deployment"]

_determine_deployment_strategy_strict_bounds(confidence) ==
    IF confidence > DirectThreshold THEN deployment_strategies.low_risk
    ELSE IF confidence > CanaryThreshold THEN deployment_strategies.medium_risk
    ELSE deployment_strategies.high_risk

_determine_deployment_strategy(confidence) ==
    IF confidence >= DirectThreshold THEN deployment_strategies.low_risk
    ELSE IF confidence >= CanaryThreshold THEN deployment_strategies.medium_risk
    ELSE deployment_strategies.high_risk

InProgress == {d \in DOMAIN active_deployments : active_deployments[d].status = "in_progress"}

_check_safety_constraints_off_by_one ==
    IF safety_config.business_hours_restriction
       /\ BusinessHoursStart <= current_hour /\ current_hour <= BusinessHoursEnd
    THEN FALSE
    ELSE IF Cardinality(InProgress) > safety_config.max_concurrent_deployments
    THEN FALSE
    ELSE TRUE

_check_safety_constraints_hour_17_open ==
    IF safety_config.business_hours_restriction
       /\ BusinessHoursStart <= current_hour /\ current_hour < BusinessHoursEnd
    THEN FALSE
    ELSE IF Cardinality(InProgress) >= safety_config.max_concurrent_deployments
    THEN FALSE
    ELSE TRUE

_check_safety_constraints ==
    IF safety_config.business_hours_restriction
       /\ BusinessHoursStart <= current_hour /\ current_hour <= BusinessHoursEnd
    THEN FALSE
    ELSE IF Cardinality(InProgress) >= safety_config.max_concurrent_deployments
    THEN FALSE
    ELSE TRUE

\* _rollback_deployment up to its first suspension point: the status
\* assignment, and whether a git reset follows.
_rollback_deployment_reopens(dep) == SetStatus(dep, "in_progress")

_rollback_deployment_only_if_committed(dep) ==
    IF dep.commit_hash # NoValue THEN SetStatus(dep, "rolled_back") ELSE dep

_rollback_deployment(dep) == SetStatus(dep, "rolled_back")

\* except Exception in _execute_deployment, up to the rollback call.
_execute_deployment_except(dep) == Note(SetStatus(dep, "failed"), "error")

\* The continuations below give the record and the position of the task at
\* its next suspension point: [dep, at, i, ok].
At(dep, at) == [dep |-> dep, at |-> at, i |-> 0, ok |-> TRUE]

\* _rollback_deployment called from _execute_deployment: git reset only when
\* a commit hash was captured, otherwise it returns at once.
RollbackFrom_always_resets(dep) ==
    At(Invoke(_rollback_deployment(dep), "git_reset"), "rollback_reset")

RollbackFrom(dep) ==
    LET d1 == _rollback_deployment(dep)
    IN  IF d1.commit_hash # NoValue
        THEN At(Invoke(d1, "git_reset"), "rollback_reset")
        ELSE At(d1, "returned")

OnException(dep) == RollbackFrom(_execute_deployment_except(dep))

\* _run_tests: one subprocess per test command; a command that cannot be
\* started or exits non-zero clears results['success'], the others still run.
StartTests(dep) ==
    IF TestCommands = 0
    THEN At(Invoke([dep EXCEPT !.test_results = "success"], "commit"), "git_add")
    ELSE [dep |-> Invoke(dep, "test"), at |-> "run_tests", i |-> 1, ok |-> TRUE]

AfterTests(dep, success) ==
    LET d1 == [dep EXCEPT !.test_results = IF success THEN "success" ELSE "failure"]
    IN  IF ~success THEN RollbackFrom(d1)
        ELSE At(Invoke(d1, "commit"), "git_add")

\* lines 460-470: commit_hash is whatever _commit_changes returned (None when
\* a git command failed), then the release strategy runs.
AfterCommit(dep, commit_hash) ==
    At(Invoke([dep EXCEPT !.commit_hash = commit_hash], "release"), "release")

AfterRelease(dep, released) ==
    IF released THEN At(SetStatus(dep, "completed"), "returned")
    ELSE OnException(dep)

deploy_fix_apply_before_backup(id, confidence, backup_ok, apply_ok) ==
    LET d0 == DeploymentRecord(id, _determine_deployment_strategy(confidence))
    IN  IF ~_check_safety_constraints
        THEN At(Note(SetStatus(d0, "failed"), "failure_reason"), "returned")
        ELSE LET d1 == Invoke(SetStatus(d0, "in_progress"), "apply")
             IN  IF ~apply_ok THEN OnException(d1)
                 ELSE IF ~backup_ok THEN OnException(Write(Invoke(d1, "backup"), "fix"))
                 ELSE StartTests(Write(Invoke(d1, "backup"), "fix"))

deploy_fix_marks_before_check(id, confidence, backup_ok, apply_ok) ==
    LET d0 == SetStatus(DeploymentRecord(id, _determine_deployment_strategy(confidence)),
                        "in_progress")
    IN  IF ~_check_safety_constraints
        THEN At(Note(SetStatus(d0, "failed"), "failure_reason"), "returned")
        ELSE LET d1 == Invoke(d0, "backup")
             IN  IF ~backup_ok THEN OnException(d1)
                 ELSE IF ~apply_ok THEN OnException(Invoke(d1, "apply"))
                 ELSE StartTests(Write(Invoke(d1, "apply"), "fix"))

\* deploy_fix from its entry to the first suspension point.
deploy_fix(id, confidence, backup_ok, apply_ok) ==
    LET d0 == DeploymentRecord(id, _determine_deployment_strategy(confidence))
    IN  IF ~_check_safety_constraints
        THEN At(Note(SetStatus(d0, "failed"), "failure_reason"), "returned")
        ELSE LET d1 == Invoke(SetStatus(d0, "in_progress"), "backup")
             IN  IF ~backup_ok THEN OnException(d1)
                 ELSE IF ~apply_ok THEN OnException(Invoke(d1, "apply"))
                 ELSE StartTests(Write(Invoke(d1, "apply"), "fix"))

\* _run_tests, one test command finishing (exit status 0 or not).
_run_tests(dep, i, ok, passed) ==
    IF i < TestCommands
    THEN [dep |-> Invoke(dep, "test"), at |-> "run_tests", i |-> i + 1, ok |-> ok /\ passed]
    ELSE AfterTests(dep, ok /\ passed)

\* _commit_changes, one git command finishing: add, commit, rev-parse HEAD.
\* A failing command is caught inside _commit_changes, which returns None.
_commit_changes(dep, at, ok) ==
    IF ~ok THEN AfterCommit(dep, NoValue)
    ELSE IF at = "git_add" THEN At(dep, "git_commit")
    ELSE IF at = "git_commit" THEN At(dep, "git_rev_parse")
    ELSE AfterCommit(dep, "hash")

\* _rollback_deployment after its git reset / redeploy finished; a failure is
\* caught and logged inside _rollback_deployment.
_rollback_deployment_step(dep, at, ok) ==
    IF at = "rollback_reset" /\ ok
    THEN At(Invoke(Write(dep, "original"), "redeploy"), "rollback_redeploy")
    ELSE At(dep, "returned")

\* _check_rollback_triggers: "For prototype, always return False".
_check_rollback_triggers(dep) == FALSE

\* ------------------------------------------------------- AILearningEngine
\* Exact rationals <<p, q>> with q > 0, kept in lowest terms.
RECURSIVE GCD(_, _)
GCD(a, b) == IF b = 0 THEN a ELSE GCD(b, a % b)
Abs(x) == IF x < 0 THEN -x ELSE x
Rat(p, q) ==
    LET g == GCD(Abs(p), q)
    IN  IF g = 0 THEN <<0, 1>> ELSE <<p \div g, q \div g>>
FromPermille(x) == Rat(x, Permille)
RatAdd(a, b) == Rat(a[1] * b[2] + b[1] * a[2], a[2] * b[2])
RatLeq(a, b) == a[1] * b[2] <= b[1] * a[2]
RatLt(a, b) == a[1] * b[2] < b[1] * a[2]
RatMax(a, b) == IF RatLeq(a, b) THEN b ELSE a
RatMin(a, b) == IF RatLeq(a, b) THEN a ELSE b
Zero == <<0, 1>>
One == <<1, 1>>

Outcomes == {"success", "failure", "partial"}

AiIntervention(problem_type, confidence, risk_score, outcome, timestamp, deployment_id) ==
    [problem_type |-> problem_type, confidence |-> confidence, risk_score |-> risk_score,
     outcome |-> outcome, timestamp |-> timestamp, deployment_id |-> deployment_id]

OutcomeValue2_partial_as_failure(outcome) ==
    IF outcome = "success" THEN 2 ELSE 0

\* _save_data writes every intervention as a JSON object whose timestamp is
\* its ISO text (hour and minute here); _load_existing_data parses it back.
isoformat(timestamp) == <<timestamp \div MinutesPerHour, timestamp % MinutesPerHour>>
fromisoformat(text) == text[1] * MinutesPerHour + text[2]
_save_data(log) ==
    [k \in 1..Len(log) |-> [log[k] EXCEPT !.timestamp = isoformat(log[k].timestamp)]]
Parsed(file) ==
    [k \in 1..Len(file) |-> [file[k] EXCEPT !.timestamp = fromisoformat(file[k].timestamp)]]

\* Twice the outcome value of line 181: success 1.0, partial 0.5, else 0.0.
OutcomeValue2(outcome) ==
    IF outcome = "success" THEN 2 ELSE IF outcome = "partial" THEN 1 ELSE 0

TypesIn(log) == {log[i].problem_type : i \in 1..Len(log)}
OfType(log, pt) == {i \in 1..Len(log) : log[i].problem_type = pt}

RECURSIVE SumOutcomes2(_, _)
SumOutcomes2(log, idx) ==
    IF idx = {} THEN 0
    ELSE LET i == CHOOSE j \in idx : TRUE
         IN  OutcomeValue2(log[i].outcome) + SumOutcomes2(log, idx \ {i})

\* _update_learning_patterns: every problem type of the log gets
\* sum(outcomes) / len(outcomes); other entries of the table stay.
_update_learning_patterns(log, rates) ==
    [pt \in DOMAIN rates \cup TypesIn(log) |->
        IF pt \in TypesIn(log)
        THEN Rat(SumOutcomes2(log, OfType(log, pt)), 2 * Cardinality(OfType(log, pt)))
        ELSE rates[pt]]

\* _train_problem_type_model: accuracy is the share of 'success' outcomes.
_train_problem_type_model(log, pt) ==
    [name |-> pt, problem_type |-> pt, version |-> now,
     accuracy |-> Rat(Cardinality({i \in OfType(log, pt) : log[i].outcome = "success"}),
                      Cardinality(OfType(log, pt))),
     training_data_size |-> Cardinality(OfType(log, pt)), is_active |-> TRUE]

\* _retrain_models: a model, keyed by type and time, for every problem type
\* with at least 10 interventions.
_retrain_models(log, ms) ==
    LET trained == {pt \in TypesIn(log) : Cardinality(OfType(log, pt)) >= MinTrainingData}
    IN  [k \in DOMAIN ms \cup {<<pt, now>> : pt \in trained} |->
            IF k[1] \in trained /\ k[2] = now
            THEN _train_problem_type_model(log, k[1])
            ELSE ms[k]]

record_intervention_bounded_window(intervention) ==
    LET log == IF Len(interventions) >= 2
               THEN Append(Tail(interventions), intervention)
               ELSE Append(interventions, intervention)
    IN  /\ interventions' = log
        /\ pattern_success_rates' = _update_learning_patterns(log, pattern_success_rates)
        /\ interventions_file' = _save_data(log)
        /\ models' = IF Len(log) % ai_config.retrain_frequency = 0
                     THEN _retrain_models(log, models)
                     ELSE models
        /\ UNCHANGED ai_config

record_intervention_rates_of_new_only(intervention) ==
    LET log == Append(interventions, intervention)
    IN  /\ interventions' = log
        /\ pattern_success_rates' =
              _update_learning_patterns(<<intervention>>, pattern_success_rates)
        /\ interventions_file' = _save_data(log)
        /\ models' = IF Len(log) % ai_config.retrain_frequency = 0
                     THEN _retrain_models(log, models)
                     ELSE models
        /\ UNCHANGED ai_config

record_intervention_retrains_always(intervention) ==
    LET log == Append(interventions, intervention)
    IN  /\ interventions' = log
        /\ pattern_success_rates' = _update_learning_patterns(log, pattern_success_rates)
        /\ interventions_file' = _save_data(log)
        /\ models' = _retrain_models(log, models)
        /\ UNCHANGED ai_config

\* record_intervention: append, recompute the rates, save, and retrain on
\* every retrain_frequency-th intervention.
record_intervention(intervention) ==
    LET log == Append(interventions, intervention)
    IN  /\ interventions' = log
        /\ pattern_success_rates' = _update_learning_patterns(log, pattern_success_rates)
        /\ interventions_file' = _save_data(log)
        /\ models' = IF Len(log) % ai_config.retrain_frequency = 0
                     THEN _retrain_models(log, models)
                     ELSE models
        /\ UNCHANGED ai_config

predict_intervention_success_unclamped(problem_type, confidence, risk_score) ==
    IF problem_type \in DOMAIN pattern_success_rates
    THEN RatAdd(pattern_success_rates[problem_type],
                Rat((confidence - 500) * 2 + (500 - risk_score) * 2, 5 * Permille))
    ELSE FromPermille(confidence - risk_score)

predict_intervention_success_neutral_fallback(problem_type, confidence, risk_score) ==
    IF problem_type \in DOMAIN pattern_success_rates
    THEN RatMax(Zero, RatMin(One, RatAdd(pattern_success_rates[problem_type],
                Rat((confidence - 500) * 2 + (500 - risk_score) * 2, 5 * Permille))))
    ELSE Rat(1, 2)

predict_intervention_success(problem_type, confidence, risk_score) ==
    IF problem_type \in DOMAIN pattern_success_rates
    THEN LET base_success_rate == pattern_success_rates[problem_type]
             confidence_factor == (confidence - 500) * 2
             risk_factor == (500 - risk_score) * 2
             adjustment == Rat(confidence_factor + risk_factor, 5 * Permille)
         IN  RatMax(Zero, RatMin(One, RatAdd(base_success_rate, adjustment)))
    ELSE RatMax(Zero, FromPermille(confidence - risk_score))

\* _count_recent_deployments: timestamp > now - 1 hour and a deployment_id.
_count_recent_deployments_any_intervention ==
    Cardinality({i \in 1..Len(interventions) :
                    interventions[i].timestamp > now - MinutesPerHour})

_count_recent_deployments ==
    Cardinality({i \in 1..Len(interventions) :
                    /\ interventions[i].timestamp > now - MinutesPerHour
                    /\ interventions[i].deployment_id # NoDeployment})

should_auto_apply_fix_gt_limit(problem_type, confidence, risk_score) ==
    IF confidence < ai_config.min_confidence \/ risk_score > ai_config.max_risk_score
    THEN FALSE
    ELSE IF RatLt(predict_intervention_success(problem_type, confidence, risk_score),
                  FromPermille(ai_config.min_success_probability))
    THEN FALSE
    ELSE IF _count_recent_deployments > ai_config.max_deployments_per_hour
    THEN FALSE
    ELSE IF ai_config.require_approval THEN FALSE
    ELSE TRUE

should_auto_apply_fix(problem_type, confidence, risk_score) ==
    IF confidence < ai_config.min_confidence \/ risk_score > ai_config.max_risk_score
    THEN FALSE
    ELSE IF RatLt(predict_intervention_success(problem_type, confidence, risk_score),
                  FromPermille(ai_config.min_success_probability))
    THEN FALSE
    ELSE IF _count_recent_deployments >= ai_config.max_deployments_per_hour
    THEN FALSE
    ELSE IF ai_config.require_approval THEN FALSE
    ELSE TRUE

RECURSIVE SumConfidence(_)
SumConfidence(log) ==
    IF log = << >> THEN 0 ELSE Head(log).confidence + SumConfidence(Tail(log))

NoStats ==
    [total_interventions |-> 0, problem_types_learned |-> 0, success_rates |-> << >>,
     models_trained |-> 0, average_confidence |-> Zero, recent_deployments |-> 0]

get_learning_stats_types_from_models ==
    [total_interventions |-> Len(interventions),
     problem_types_learned |-> Cardinality(DOMAIN models),
     success_rates |-> pattern_success_rates,
     models_trained |-> Cardinality(DOMAIN models),
     average_confidence |->
        IF interventions = << >> THEN Zero
        ELSE Rat(SumConfidence(interventions), Permille * Len(interventions)),
     recent_deployments |->
        Cardinality({i \in 1..Len(interventions) :
                        interventions[i].timestamp > now - 7 * HoursPerDay * MinutesPerHour})]

\* get_learning_stats: a dictionary built from the log, the rate table and
\* the models; 'recent_deployments' counts the last seven days.
get_learning_stats ==
    [total_interventions |-> Len(interventions),
     problem_types_learned |-> Cardinality(DOMAIN pattern_success_rates),
     success_rates |-> pattern_success_rates,
     models_trained |-> Cardinality(DOMAIN models),
     average_confidence |->
        IF interventions = << >> THEN Zero
        ELSE Rat(SumConfidence(interventions), Permille * Len(interventions)),
     recent_deployments |->
        Cardinality({i \in 1..Len(interventions) :
                        interventions[i].timestamp > now - 7 * HoursPerDay * MinutesPerHour})]

\* ------------------------------------------------------------ the caller
NoCall == [kind |-> "none", problem_type |-> NoValue, severity |-> NoValue,
           outcome |-> NoValue,
           confidence |-> 0, risk_score |-> 0]
NoResult == [message |-> NoValue, success |-> FALSE, confidence |-> 0,
             risk_score |-> -1, deployment_id |-> 0, status |-> NoValue,
             suggestion |-> NoValue, auto_applied |-> FALSE,
             requires_approval |-> FALSE, value |-> Zero, stats |-> NoStats,
             backup_created |-> FALSE, ops |-> << >>]

\* ----------------------------------------------------- AICodeFixingPlugin
Severities == {"LOW", "MEDIUM", "HIGH", "CRITICAL"}
code_related_types ==
    {"log_pattern_syntax_error", "log_pattern_database_connection_error",
     "log_pattern_api_timeout", "code_issue"}

NoFix == [description |-> NoValue, confidence |-> 0, fix_type |-> NoValue]

\* _generate_ai_fix: the suggestion keyed by the problem type, None when the
\* type names none of syntax_error, database_connection, api_timeout.
_generate_ai_fix(problem_type) ==
    IF problem_type = "log_pattern_syntax_error"
    THEN [description |-> "Fix syntax error based on common patterns",
          confidence |-> 800, fix_type |-> "syntax_correction"]
    ELSE IF problem_type = "log_pattern_database_connection_error"
    THEN [description |-> "Add connection retry logic and better error handling",
          confidence |-> 700, fix_type |-> "connection_resilience"]
    ELSE IF problem_type = "log_pattern_api_timeout"
    THEN [description |-> "Increase timeout values and add circuit breaker",
          confidence |-> 750, fix_type |-> "timeout_handling"]
    ELSE NoFix

Min(a, b) == IF a <= b THEN a ELSE b

_calculate_risk_score_unclamped(severity, fix_suggestion) ==
    LET base_risk == 200 + (IF severity = "CRITICAL" THEN 300
                            ELSE IF severity = "HIGH" THEN 200
                            ELSE IF severity = "MEDIUM" THEN 100 ELSE 0)
        confidence_factor == ((Permille - fix_suggestion.confidence) * 3) \div 10
        type_risk == IF fix_suggestion.fix_type = "syntax_correction" THEN 100
                     ELSE IF fix_suggestion.fix_type = "connection_resilience" THEN 200
                     ELSE IF fix_suggestion.fix_type = "timeout_handling" THEN 150
                     ELSE IF fix_suggestion.fix_type = "security_fix" THEN 400
                     ELSE 300
    IN  base_risk + confidence_factor + type_risk

_calculate_risk_score_without_type_risk(severity, fix_suggestion) ==
    LET base_risk == 200 + (IF severity = "CRITICAL" THEN 300
                            ELSE IF severity = "HIGH" THEN 200
                            ELSE IF severity = "MEDIUM" THEN 100 ELSE 0)
        confidence_factor == ((Permille - fix_suggestion.confidence) * 3) \div 10
    IN  Min(Permille, base_risk + confidence_factor)

_calculate_risk_score(severity, fix_suggestion) ==
    LET base_risk == 200 + (IF severity = "CRITICAL" THEN 300
                            ELSE IF severity = "HIGH" THEN 200
                            ELSE IF severity = "MEDIUM" THEN 100 ELSE 0)
        confidence_factor == ((Permille - fix_suggestion.confidence) * 3) \div 10
        type_risk == IF fix_suggestion.fix_type = "syntax_correction" THEN 100
                     ELSE IF fix_suggestion.fix_type = "connection_resilience" THEN 200
                     ELSE IF fix_suggestion.fix_type = "timeout_handling" THEN 150
                     ELSE IF fix_suggestion.fix_type = "security_fix" THEN 400
                     ELSE 300
    IN  Min(Permille, base_risk + confidence_factor + type_risk)

\* execute_remediation, lines 799-809: the suggestion goes back for review.
ManualApproval(fix_suggestion, risk_score) ==
    [NoResult EXCEPT !.message = "AI fix generated, requires manual approval",
                     !.confidence = fix_suggestion.confidence,
                     !.risk_score = risk_score,
                     !.suggestion = fix_suggestion.description,
                     !.requires_approval = TRUE]

Return_always_success(t, c, dep) ==
    IF c.kind = "execute_remediation"
    THEN /\ record_intervention(
               AiIntervention(c.problem_type, c.confidence, c.risk_score, "success",
                              now, dep.id))
         /\ result' = [result EXCEPT ![t] =
                [NoResult EXCEPT !.message = "AI fix applied automatically",
                                 !.success = TRUE,
                                 !.confidence = c.confidence,
                                 !.deployment_id = dep.id,
                                 !.auto_applied = TRUE]]
    ELSE /\ result' = [result EXCEPT ![t] =
                [NoResult EXCEPT !.message = "DeploymentRecord", !.deployment_id = dep.id,
                                 !.status = dep.status]]
         /\ UNCHANGED learning_vars

\* What the caller of deploy_fix does when it returns `dep`: a direct caller
\* keeps the record; execute_remediation (lines 777-797) records the
\* intervention and builds its result.
Return(t, c, dep) ==
    IF c.kind = "execute_remediation"
    THEN /\ record_intervention(
               AiIntervention(c.problem_type, c.confidence, c.risk_score,
                              IF dep.status = "completed" THEN "success" ELSE "failure",
                              now, dep.id))
         /\ result' = [result EXCEPT ![t] =
                [NoResult EXCEPT !.message = "AI fix applied automatically",
                                 !.success = (dep.status = "completed"),
                                 !.confidence = c.confidence,
                                 !.deployment_id = dep.id,
                                 !.auto_applied = TRUE]]
    ELSE /\ result' = [result EXCEPT ![t] =
                [NoResult EXCEPT !.message = "DeploymentRecord", !.deployment_id = dep.id,
                                 !.status = dep.status]]
         /\ UNCHANGED learning_vars

\* A task moves to its next suspension point.
Advance(t, c, r) ==
    /\ active_deployments' = (t :> r.dep) @@ active_deployments
    /\ pc' = [pc EXCEPT ![t] = [at |-> r.at, i |-> r.i, ok |-> r.ok]]
    /\ monitor' = IF r.at = "returned" /\ r.dep.status = "completed"
                  THEN [monitor EXCEPT ![t] =
                          [at |-> "watching", end_time |-> now + monitoring_period,
                           regressed |-> FALSE]]
                  ELSE monitor
    /\ IF r.at = "returned" THEN Return(t, c, r.dep)
       ELSE UNCHANGED <<learning_vars, result>>
    /\ UNCHANGED <<now, safety_config, scheduler, framework, shutdown>>

Suspended(t, at) == ~shutdown /\ pc[t].at = at

\* ------------------------------------------------------------- actions
CallDeployFix(t) ==
    /\ Suspended(t, "idle")
    /\ \A u \in Tasks : u < t => pc[u].at # "idle"
    /\ \E confidence \in {ConfidenceOfCall(t)}, backup_ok \in BOOLEAN, apply_ok \in BOOLEAN :
          LET c == [NoCall EXCEPT !.kind = "deploy_fix", !.confidence = confidence]
          IN  /\ call' = [call EXCEPT ![t] = c]
              /\ Advance(t, c, deploy_fix(t, confidence, backup_ok, apply_ok))

\* execute_remediation from its entry to its first suspension point: the
\* suggestion, the risk score, the auto-apply decision and, when approved,
\* deploy_fix up to its first subprocess.
ProblemInputs ==
    {<<"log_pattern_syntax_error", "LOW">>, <<"log_pattern_api_timeout", "CRITICAL">>,
     <<"code_issue", "MEDIUM">>}

ReturnWithoutAttempt_records(t, c, res) ==
    /\ call' = [call EXCEPT ![t] = c]
    /\ pc' = [pc EXCEPT ![t].at = "returned"]
    /\ result' = [result EXCEPT ![t] = res]
    /\ record_intervention(AiIntervention(c.problem_type, c.confidence, c.risk_score,
                                          "failure", now, NoDeployment))
    /\ UNCHANGED <<now, deploy_vars, scheduler, framework, shutdown>>

\* execute_remediation returning before any fix is attempted (lines 758-763
\* and 799-809): nothing but the return value is produced.
ReturnWithoutAttempt(t, c, res) ==
    /\ call' = [call EXCEPT ![t] = c]
    /\ pc' = [pc EXCEPT ![t].at = "returned"]
    /\ result' = [result EXCEPT ![t] = res]
    /\ UNCHANGED <<now, deploy_vars, scheduler, framework, shutdown, learning_vars>>

ExecuteRemediationOn(t, problems) ==
    /\ Suspended(t, "idle")
    /\ \A u \in Tasks : u < t => pc[u].at # "idle"
    /\ \E problem \in problems, backup_ok \in BOOLEAN, apply_ok \in BOOLEAN :
          LET fix_suggestion == _generate_ai_fix(problem[1])
              risk_score == _calculate_risk_score(problem[2], fix_suggestion)
              c == [kind |-> "execute_remediation", problem_type |-> problem[1],
                    outcome |-> NoValue,
                    severity |-> problem[2], confidence |-> fix_suggestion.confidence,
                    risk_score |-> risk_score]
          IN  IF fix_suggestion = NoFix
              THEN ReturnWithoutAttempt(t, [c EXCEPT !.risk_score = 0],
                      [NoResult EXCEPT !.message = "Could not generate AI fix suggestion"])
              ELSE IF ~should_auto_apply_fix(problem[1], fix_suggestion.confidence, risk_score)
              THEN ReturnWithoutAttempt(t, c, ManualApproval(fix_suggestion, risk_score))
              ELSE /\ call' = [call EXCEPT ![t] = c]
                   /\ Advance(t, c, deploy_fix(t, fix_suggestion.confidence, backup_ok, apply_ok))

ExecuteRemediation(t) == ExecuteRemediationOn(t, ProblemInputs)

\* Every problem type _generate_ai_fix recognizes, at every severity.
recognized_types ==
    {"log_pattern_syntax_error", "log_pattern_database_connection_error",
     "log_pattern_api_timeout"}
BuiltinProblems == recognized_types \X Severities
ExecuteBuiltinRemediation(t) == ExecuteRemediationOn(t, BuiltinProblems)

RunTests(t) ==
    /\ Suspended(t, "run_tests")
    /\ \E passed \in BOOLEAN :
          Advance(t, call[t],
                  _run_tests(active_deployments[t], pc[t].i, pc[t].ok, passed))
    /\ UNCHANGED call

CommitChanges(t) ==
    /\ ~shutdown
    /\ pc[t].at \in {"git_add", "git_commit", "git_rev_parse"}
    /\ \E ok \in BOOLEAN :
          Advance(t, call[t], _commit_changes(active_deployments[t], pc[t].at, ok))
    /\ UNCHANGED call

Release(t) ==
    /\ Suspended(t, "release")
    /\ \E released \in BOOLEAN :
          Advance(t, call[t], AfterRelease(active_deployments[t], released))
    /\ UNCHANGED call

Rollback(t) ==
    /\ ~shutdown
    /\ pc[t].at \in {"rollback_reset", "rollback_redeploy"}
    /\ \E ok \in BOOLEAN :
          Advance(t, call[t],
                  _rollback_deployment_step(active_deployments[t], pc[t].at, ok))
    /\ UNCHANGED call

\* _monitor_deployment: one pass of its loop, or its end.
MonitorDeployment(t) ==
    /\ ~shutdown
    /\ monitor[t].at = "watching"
    /\ IF now < monitor[t].end_time
       THEN IF _check_rollback_triggers(active_deployments[t])
            THEN LET r == RollbackFrom(active_deployments[t])
                 IN  /\ active_deployments' = [active_deployments EXCEPT ![t] = r.dep]
                     /\ monitor' = [monitor EXCEPT ![t].at =
                            IF r.at = "returned" THEN "done" ELSE r.at]
            ELSE UNCHANGED <<active_deployments, monitor>>
       ELSE /\ monitor' = [monitor EXCEPT ![t].at = "done"]
            /\ UNCHANGED active_deployments
    /\ UNCHANGED <<now, safety_config, scheduler, framework, pc, shutdown, learning_vars, call, result>>

\* _rollback_deployment running inside the monitor task.
MonitorRollback(t) ==
    /\ ~shutdown
    /\ monitor[t].at \in {"rollback_reset", "rollback_redeploy"}
    /\ \E ok \in BOOLEAN :
          LET r == _rollback_deployment_step(active_deployments[t], monitor[t].at, ok)
          IN  /\ active_deployments' = [active_deployments EXCEPT ![t] = r.dep]
              /\ monitor' = [monitor EXCEPT ![t].at =
                     IF r.at = "returned" THEN "done" ELSE r.at]
    /\ UNCHANGED <<now, safety_config, scheduler, framework, pc, shutdown, learning_vars, call, result>>

\* The monitored service regresses beyond a configured auto_rollback_triggers
\* threshold (error rate, response time, availability) while a deployment
\* is being watched.
MetricsRegress(t) ==
    /\ ~shutdown
    /\ monitor[t].at = "watching"
    /\ now < monitor[t].end_time
    /\ ~monitor[t].regressed
    /\ monitor' = [monitor EXCEPT ![t].regressed = TRUE]
    /\ UNCHANGED <<now, safety_config, scheduler, framework, active_deployments, pc, shutdown, learning_vars,
                   call, result>>

Tick ==
    /\ ~shutdown
    /\ \E s \in StartTimes : s <= now /\ now + TickMinutes <= s + MaxTicks * TickMinutes
    /\ now' = now + TickMinutes
    /\ UNCHANGED <<safety_config, scheduler, framework, active_deployments, pc, monitor, shutdown,
                   learning_vars, call, result>>

\* The framework stops and the event loop is torn down: every task still
\* suspended receives CancelledError at its await.  CancelledError is not an
\* Exception, so no handler of the deployment engine runs.
Cancelled(p) ==
    IF p.at \in {"idle", "returned", "none", "done"} THEN p ELSE [p EXCEPT !.at = "cancelled"]

Shutdown ==
    /\ ~shutdown
    /\ shutdown' = TRUE
    /\ pc' = [t \in Tasks |-> Cancelled(pc[t])]
    /\ monitor' = [t \in Tasks |-> Cancelled(monitor[t])]
    /\ interventions_file' = _save_data(interventions)
    /\ UNCHANGED <<now, safety_config, scheduler, framework, active_deployments, ai_config, interventions,
                   pattern_success_rates, models, call, result>>

\* ---------------------------------------------------------- specification
DefaultAiConfig ==
    [min_confidence |-> 750, max_risk_score |-> 300, min_success_probability |-> 800,
     retrain_frequency |-> 50, max_deployments_per_hour |-> 2, require_approval |-> TRUE]

InitDeploy ==
    /\ now \in StartTimes
    /\ safety_config \in [business_hours_restriction : BOOLEAN,
                           max_concurrent_deployments : 1..MaxConcurrentLimit]
    /\ active_deployments = << >>
    /\ pc = [t \in Tasks |-> [at |-> "idle", i |-> 0, ok |-> TRUE]]
    /\ monitor = [t \in Tasks |-> [at |-> "none", end_time |-> 0, regressed |-> FALSE]]
    /\ shutdown = FALSE
    /\ scheduler = [f \in Frameworks |-> NotStarted]
    /\ framework = NewFramework
    /\ ai_config = DefaultAiConfig
    /\ interventions = << >>
    /\ pattern_success_rates = << >>
    /\ models = << >>
    /\ interventions_file = << >>
    /\ call = [t \in Tasks |-> NoCall]
    /\ result = [t \in Tasks |-> NoResult]

\* ------------------------------------------- learning engine, called directly
TestAiConfig ==
    [min_confidence |-> 750, max_risk_score |-> 300, min_success_probability |-> 800,
     retrain_frequency |-> 5, max_deployments_per_hour |-> 3, require_approval |-> FALSE]
\* The integration test's configuration; max_deployments_per_hour is left to
\* its default.
IntegrationAiConfig ==
    [min_confidence |-> 700, max_risk_score |-> 400, min_success_probability |-> 600,
     retrain_frequency |-> 3, max_deployments_per_hour |-> 2, require_approval |-> FALSE]
LearningConfigs == {DefaultAiConfig, TestAiConfig}

RecordTypes == {"log_pattern_syntax_error"}
QueryTypes == RecordTypes \cup {"code_issue"}
QueryConfidences == {600, 950}
QueryRisks == {50}
\* The integration test's first query.
InitialQuery == {<<800, 300>>}
\* Arguments of direct predict_intervention_success calls, the tests' invalid
\* pair (1.5, -0.1) among them.
PredictInputs == {<<800, 200>>, <<1000, 0>>, <<0, 1000>>, <<1500, -100>>}
RateTypes == RecordTypes \cup {"log_pattern_api_timeout"}
ExternalDeploymentId == MaxTasks + 1

\* Interventions as the tests build them: confidence 0.9, risk 0.1, stamped
\* now; one carrying a deployment id may also be stamped 61 minutes ago.
InterventionInputs ==
    {AiIntervention(pt, 900, 100, outcome, now, dep) :
        pt \in RecordTypes, outcome \in Outcomes, dep \in {NoDeployment, ExternalDeploymentId}}
    \cup {AiIntervention(pt, 900, 100, outcome, now - MinutesPerHour - 1, ExternalDeploymentId) :
        pt \in RecordTypes, outcome \in Outcomes}

RecordIntervention ==
    /\ ~shutdown
    /\ Len(interventions) < MaxInterventions
    /\ \E intervention \in InterventionInputs :
          /\ record_intervention(intervention)
          /\ call' = [call EXCEPT ![1] =
                 [NoCall EXCEPT !.kind = "record_intervention",
                                !.problem_type = intervention.problem_type,
                                !.confidence = intervention.confidence,
                                !.risk_score = intervention.risk_score]]
    /\ result' = [result EXCEPT ![1] = NoResult]
    /\ UNCHANGED <<now, deploy_vars, scheduler, framework, pc, shutdown>>

QueryAutoApply(inputs) ==
    /\ ~shutdown
    /\ \E pt \in QueryTypes, input \in inputs :
          /\ call' = [call EXCEPT ![1] =
                 [NoCall EXCEPT !.kind = "should_auto_apply_fix", !.problem_type = pt,
                                !.confidence = input[1], !.risk_score = input[2]]]
          /\ result' = [result EXCEPT ![1] =
                 [NoResult EXCEPT !.message = "should_auto_apply_fix",
                                  !.success = should_auto_apply_fix(pt, input[1], input[2])]]
    /\ UNCHANGED <<now, deploy_vars, scheduler, framework, pc, shutdown, learning_vars>>

ShouldAutoApplyFix == QueryAutoApply(QueryConfidences \X QueryRisks)

PredictInterventionSuccess ==
    /\ ~shutdown
    /\ \E pt \in QueryTypes, input \in PredictInputs :
          /\ call' = [call EXCEPT ![1] =
                 [NoCall EXCEPT !.kind = "predict_intervention_success", !.problem_type = pt,
                                !.confidence = input[1], !.risk_score = input[2]]]
          /\ result' = [result EXCEPT ![1] =
                 [NoResult EXCEPT !.message = "predict_intervention_success",
                                  !.value = predict_intervention_success(pt, input[1], input[2])]]
    /\ UNCHANGED <<now, deploy_vars, scheduler, framework, pc, shutdown, learning_vars>>

InitLearn ==
    /\ now = 8 * MinutesPerHour + 30
    /\ safety_config = [business_hours_restriction |-> TRUE, max_concurrent_deployments |-> 1]
    /\ active_deployments = << >>
    /\ pc = [t \in Tasks |-> [at |-> "idle", i |-> 0, ok |-> TRUE]]
    /\ monitor = [t \in Tasks |-> [at |-> "none", end_time |-> 0, regressed |-> FALSE]]
    /\ shutdown = FALSE
    /\ scheduler = [f \in Frameworks |-> NotStarted]
    /\ framework = NewFramework
    /\ ai_config \in LearningConfigs
    /\ interventions = << >>
    /\ pattern_success_rates = << >>
    /\ models = << >>
    /\ interventions_file = << >>
    /\ call = [t \in Tasks |-> NoCall]
    /\ result = [t \in Tasks |-> NoResult]

NextLearn ==
    \/ RecordIntervention
    \/ ShouldAutoApplyFix

SpecLearn == InitLearn /\ [][NextLearn]_vars

\* ------------------------------------- learning: rates, prediction, training
\* record_intervention with interventions as the tests' helper builds them
\* (confidence 0.8, risk 0.2, no deployment id).
RecordOutcome(types, outcomes, limit) ==
    /\ ~shutdown
    /\ Len(interventions) < limit
    /\ \E pt \in types, outcome \in outcomes :
          /\ record_intervention(AiIntervention(pt, 800, 200, outcome, now, NoDeployment))
          /\ call' = [call EXCEPT ![1] =
                 [NoCall EXCEPT !.kind = "record_intervention", !.problem_type = pt,
                                !.confidence = 800, !.risk_score = 200]]
    /\ result' = [result EXCEPT ![1] = NoResult]
    /\ UNCHANGED <<now, deploy_vars, scheduler, framework, pc, shutdown>>

\* _retrain_models called directly, as the insufficient-data test does.
RetrainModels ==
    /\ ~shutdown
    /\ models' = _retrain_models(interventions, models)
    /\ interventions_file' = _save_data(interventions)
    /\ UNCHANGED <<now, deploy_vars, scheduler, framework, pc, shutdown, ai_config, interventions,
                   pattern_success_rates, call, result>>

InitEngine(configs) ==
    /\ now = 8 * MinutesPerHour + 30
    /\ safety_config = [business_hours_restriction |-> TRUE, max_concurrent_deployments |-> 1]
    /\ active_deployments = << >>
    /\ pc = [t \in Tasks |-> [at |-> "idle", i |-> 0, ok |-> TRUE]]
    /\ monitor = [t \in Tasks |-> [at |-> "none", end_time |-> 0, regressed |-> FALSE]]
    /\ shutdown = FALSE
    /\ scheduler = [f \in Frameworks |-> NotStarted]
    /\ framework = NewFramework
    /\ ai_config \in configs
    /\ interventions = << >>
    /\ pattern_success_rates = << >>
    /\ models = << >>
    /\ interventions_file = << >>
    /\ call = [t \in Tasks |-> NoCall]
    /\ result = [t \in Tasks |-> NoResult]

InitPredict == InitEngine({TestAiConfig, IntegrationAiConfig})
NextPredict ==
    \/ RecordOutcome(RecordTypes, Outcomes, MaxInterventions)
    \/ PredictInterventionSuccess
    \/ QueryAutoApply(InitialQuery)
SpecPredict == InitPredict /\ [][NextPredict]_vars

InitRates == InitEngine({TestAiConfig})
NextRates == RecordOutcome(RateTypes, Outcomes, MaxRated)
SpecRates == InitRates /\ [][NextRates]_vars

\* The outcomes the retraining test records.
TrainOutcomes == {"success", "failure"}
InitTrain == InitEngine({TestAiConfig, IntegrationAiConfig})
NextTrain ==
    \/ RecordOutcome(RecordTypes, TrainOutcomes, MaxRecorded)
    \/ RetrainModels
SpecTrain == InitTrain /\ [][NextTrain]_vars

\* --------------------------------- learning: concurrent record_intervention
\* The concurrency test gathers one record_intervention task per
\* intervention, with confidence 0.7 + i * 0.05, on an engine that may
\* already hold interventions recorded earlier.
TaskConfidence(t) == 700 + 50 * t
PriorInputs ==
    {AiIntervention(pt, 800, 200, outcome, 8 * MinutesPerHour, NoDeployment) :
        pt \in RateTypes, outcome \in Outcomes}
PriorLogs == UNION {[1..n -> PriorInputs] : n \in 0..MaxPrior}

\* One gathered task: record_intervention has no suspension point (its
\* awaits are coroutines that never yield and its file writes are
\* synchronous), so the event loop runs each call in one piece.
RecordTask(t) ==
    /\ Suspended(t, "scheduled")
    /\ record_intervention(
          AiIntervention(call[t].problem_type, call[t].confidence, call[t].risk_score,
                         call[t].outcome, now, NoDeployment))
    /\ pc' = [pc EXCEPT ![t].at = "returned"]
    /\ UNCHANGED <<now, deploy_vars, scheduler, framework, shutdown, call, result>>

InitConcurrent ==
    /\ now = 8 * MinutesPerHour + 30
    /\ safety_config = [business_hours_restriction |-> TRUE, max_concurrent_deployments |-> 1]
    /\ active_deployments = << >>
    /\ pc = [t \in Tasks |-> [at |-> "scheduled", i |-> 0, ok |-> TRUE]]
    /\ monitor = [t \in Tasks |-> [at |-> "none", end_time |-> 0, regressed |-> FALSE]]
    /\ shutdown = FALSE
    /\ scheduler = [f \in Frameworks |-> NotStarted]
    /\ framework = NewFramework
    /\ ai_config = TestAiConfig
    /\ interventions \in PriorLogs
    /\ pattern_success_rates = _update_learning_patterns(interventions, << >>)
    /\ models = << >>
    /\ interventions_file = _save_data(interventions)
    /\ \E outcomes \in [Tasks -> Outcomes] :
          call = [t \in Tasks |->
                    [NoCall EXCEPT !.kind = "record_intervention",
                                   !.problem_type = "log_pattern_syntax_error",
                                   !.confidence = TaskConfidence(t), !.risk_score = 200,
                                   !.outcome = outcomes[t]]]
    /\ result = [t \in Tasks |-> NoResult]

NextConcurrent == \E t \in Tasks : RecordTask(t)
SpecConcurrent == InitConcurrent /\ [][NextConcurrent]_vars

\* ------------------------------------------------- learning: statistics
GetLearningStats ==
    /\ ~shutdown
    /\ call' = [call EXCEPT ![1] = [NoCall EXCEPT !.kind = "get_learning_stats"]]
    /\ result' = [result EXCEPT ![1] =
           [NoResult EXCEPT !.message = "get_learning_stats", !.stats = get_learning_stats]]
    /\ UNCHANGED <<now, deploy_vars, scheduler, framework, pc, shutdown, learning_vars>>

InitStats == InitEngine({TestAiConfig})
NextStats ==
    \/ RecordOutcome(RateTypes, Outcomes, MaxInterventions)
    \/ GetLearningStats
SpecStats == InitStats /\ [][NextStats]_vars

\* ------------------------------------------ learning: restart and load
\* A new engine on the model directory of a previous process: __init__
\* creates the _load_existing_data task, which runs when the constructing
\* coroutine first yields; record_intervention calls awaited before that run
\* ahead of it.  The previous process trained no model.
LoadTask == 2

_load_existing_data ==
    LET log == interventions \o Parsed(interventions_file)
    IN  /\ interventions' = log
        /\ pattern_success_rates' = _update_learning_patterns(log, pattern_success_rates)
        /\ UNCHANGED <<models, interventions_file, ai_config>>

LoadExistingData ==
    /\ Suspended(LoadTask, "scheduled")
    /\ _load_existing_data
    /\ pc' = [pc EXCEPT ![LoadTask].at = "returned"]
    /\ UNCHANGED <<now, deploy_vars, scheduler, framework, shutdown, call, result>>

InitRestart ==
    /\ now = 8 * MinutesPerHour + 30
    /\ safety_config = [business_hours_restriction |-> TRUE, max_concurrent_deployments |-> 1]
    /\ active_deployments = << >>
    /\ pc = [t \in Tasks |-> [at |-> IF t = LoadTask THEN "scheduled" ELSE "idle",
                               i |-> 0, ok |-> TRUE]]
    /\ monitor = [t \in Tasks |-> [at |-> "none", end_time |-> 0, regressed |-> FALSE]]
    /\ shutdown = FALSE
    /\ scheduler = [f \in Frameworks |-> NotStarted]
    /\ framework = NewFramework
    /\ ai_config = TestAiConfig
    /\ interventions = << >>
    /\ pattern_success_rates = << >>
    /\ models = << >>
    /\ interventions_file \in {_save_data(log) : log \in PriorLogs}
    /\ call = [t \in Tasks |->
                 IF t = LoadTask THEN [NoCall EXCEPT !.kind = "_load_existing_data"]
                 ELSE NoCall]
    /\ result = [t \in Tasks |-> NoResult]

NextRestart ==
    \/ LoadExistingData
    \/ RecordOutcome(RecordTypes, Outcomes, MaxInterventions)
SpecRestart == InitRestart /\ [][NextRestart]_vars

\* ------------------------------------------- the plugin and both engines
\* _calculate_risk_score applied to every severity, fix type and confidence.
FixTypes == {"syntax_correction", "connection_resilience", "timeout_handling",
             "security_fix", "unknown"}
RiskConfidences == {0, 500, 700, 750, 800, 1000}
Suggestion(confidence, fix_type) ==
    [description |-> "fix", confidence |-> confidence, fix_type |-> fix_type]
CalculateRiskScore ==
    /\ ~shutdown
    /\ \E severity \in Severities, confidence \in RiskConfidences, fix_type \in FixTypes :
          LET fix_suggestion == Suggestion(confidence, fix_type)
          IN  /\ call' = [call EXCEPT ![1] =
                     [NoCall EXCEPT !.kind = "_calculate_risk_score",
                                    !.severity = severity, !.confidence = confidence]]
              /\ result' = [result EXCEPT ![1] =
                     [NoResult EXCEPT !.suggestion = fix_suggestion,
                          !.risk_score = _calculate_risk_score(severity, fix_suggestion)]]
    /\ UNCHANGED <<now, deploy_vars, scheduler, framework, pc, shutdown, learning_vars>>

InitRisk == InitEngine({DefaultAiConfig})
NextRisk == CalculateRiskScore
SpecRisk == InitRisk /\ [][NextRisk]_vars

PermissiveAiConfig ==
    [min_confidence |-> 700, max_risk_score |-> 500, min_success_probability |-> 400,
     retrain_frequency |-> 50, max_deployments_per_hour |-> 2, require_approval |-> FALSE]
PluginConfigs == {DefaultAiConfig, PermissiveAiConfig}

InitPlugin(configs) ==
    /\ now = 17 * MinutesPerHour + 30
    /\ safety_config \in [business_hours_restriction : BOOLEAN,
                           max_concurrent_deployments : 1..MaxConcurrentLimit]
    /\ active_deployments = << >>
    /\ pc = [t \in Tasks |-> [at |-> "idle", i |-> 0, ok |-> TRUE]]
    /\ monitor = [t \in Tasks |-> [at |-> "none", end_time |-> 0, regressed |-> FALSE]]
    /\ shutdown = FALSE
    /\ scheduler = [f \in Frameworks |-> NotStarted]
    /\ framework = NewFramework
    /\ ai_config \in configs
    /\ interventions = << >>
    /\ pattern_success_rates = << >>
    /\ models = << >>
    /\ interventions_file = << >>
    /\ call = [t \in Tasks |-> NoCall]
    /\ result = [t \in Tasks |-> NoResult]

Init == InitPlugin(PluginConfigs)

Next ==
    \/ \E t \in Tasks : ExecuteRemediation(t)
    \/ \E t \in Tasks : RunTests(t)
    \/ \E t \in Tasks : CommitChanges(t)
    \/ \E t \in Tasks : Release(t)
    \/ \E t \in Tasks : Rollback(t)
    \/ \E t \in Tasks : MonitorDeployment(t)
    \/ Tick
    \/ Shutdown

Spec == Init /\ [][Next]_vars

\* The plugin with at most one automatic deployment per hour.
SingleDeploymentAiConfig == [PermissiveAiConfig EXCEPT !.max_deployments_per_hour = 1]
InitLimit == InitPlugin({SingleDeploymentAiConfig})
SpecLimit == InitLimit /\ [][Next]_vars

\* The plugin on the built-in suggestions with the default max_risk_score:
\* the default configuration with approval switched off, and one whose other
\* thresholds are permissive so that only the risk score can refuse.
UnapprovedAiConfig == [DefaultAiConfig EXCEPT !.require_approval = FALSE]
DefaultRiskAiConfig == [PermissiveAiConfig EXCEPT !.max_risk_score = DefaultAiConfig.max_risk_score]
InitBuiltin == InitPlugin({UnapprovedAiConfig, DefaultRiskAiConfig})
NextBuiltin ==
    \/ \E t \in Tasks : ExecuteBuiltinRemediation(t)
    \/ Tick
SpecBuiltin == InitBuiltin /\ [][NextBuiltin]_vars

NextDeploy ==
    \/ \E t \in Tasks : CallDeployFix(t)
    \/ \E t \in Tasks : RunTests(t)
    \/ \E t \in Tasks : CommitChanges(t)
    \/ \E t \in Tasks : Release(t)
    \/ \E t \in Tasks : Rollback(t)
    \/ \E t \in Tasks : MonitorDeployment(t)
    \/ Tick
    \/ Shutdown

SpecDeploy == InitDeploy /\ [][NextDeploy]_vars

\* ------------------------------------------------ one monitoring cycle
Called(op, plugin, metrics, history, returned) ==
    [op |-> op, plugin |-> plugin, metrics |-> metrics, history |-> history,
     returned |-> returned]

\* _collect_all_metrics: dict.update per collector in registration order; a
\* collector that raises is logged and skipped.
RECURSIVE CollectFrom_first_wins(_, _, _)
CollectFrom_first_wins(k, all_metrics, returns) ==
    IF k > Len(Collectors) THEN all_metrics
    ELSE LET r == returns[Collectors[k]]
         IN  CollectFrom_first_wins(k + 1,
                 IF r.raised THEN all_metrics ELSE all_metrics @@ r.value, returns)

RECURSIVE CollectFrom(_, _, _)
CollectFrom(k, all_metrics, returns) ==
    IF k > Len(Collectors) THEN all_metrics
    ELSE LET r == returns[Collectors[k]]
         IN  CollectFrom(k + 1,
                 IF r.raised THEN all_metrics ELSE r.value @@ all_metrics, returns)

_collect_all_metrics(returns) == CollectFrom(1, [timestamp |-> Number(now)], returns)

\* deque(maxlen=1000).append
append_unbounded(history, snapshot) == Append(history, snapshot)

append(history, snapshot) ==
    IF Len(history) >= HistoryCapacity THEN Append(Tail(history), snapshot)
    ELSE Append(history, snapshot)

\* _monitoring_cycle up to the first detector call: every collector is
\* awaited, then the snapshot is appended to metrics_history.
CollectAllMetrics(system_returns, log_returns, limit) ==
    /\ ~shutdown
    /\ framework.at = "idle"
    /\ framework.n < limit
    /\ \E system \in system_returns, log \in log_returns :
          LET returns == [c \in {Collectors[k] : k \in 1..Len(Collectors)} |->
                             IF c = "system_metrics_collector" THEN system ELSE log]
              current_metrics == _collect_all_metrics(returns)
          IN  framework' =
                  [framework EXCEPT
                      !.at = "collected", !.n = @ + 1,
                      !.current_metrics = current_metrics,
                      !.metrics_history = append(@, current_metrics),
                      !.problems = << >>, !.report = NoReport,
                      !.trace = [k \in 1..Len(Collectors) |->
                                    Called("collect_metrics", Collectors[k], << >>, << >>,
                                           returns[Collectors[k]])]]
    /\ UNCHANGED <<now, deploy_vars, scheduler, pc, shutdown, learning_vars, call, result>>

\* ProblemSeverity and Problem.
ProblemSeverity ==
    [LOW |-> [name |-> "LOW", value |-> 1], MEDIUM |-> [name |-> "MEDIUM", value |-> 2],
     HIGH |-> [name |-> "HIGH", value |-> 3], CRITICAL |-> [name |-> "CRITICAL", value |-> 4]]
Problem(type, severity, timestamp) ==
    [type |-> type, severity |-> severity, timestamp |-> timestamp]
to_dict(problem) ==
    [problem EXCEPT !.severity = problem.severity.name,
                    !.timestamp = isoformat(problem.timestamp)]

\* ThresholdDetectorPlugin: the default thresholds of initialize and
\* detect_problems, which walks the metrics in the order the system
\* collector reports them.
thresholds ==
    [cpu_usage |-> [warning |-> 80, critical |-> 95],
     memory_usage |-> [warning |-> 85, critical |-> 95],
     disk_usage |-> [warning |-> 85, critical |-> 95]]
MetricOrder == <<"timestamp", "cpu_usage", "memory_usage", "disk_usage", "log_entries">>

ProblemsOfMetric_warning_is_strict(metric_name, value) ==
    IF metric_name \in DOMAIN thresholds /\ value.kind = "number"
    THEN IF value.v >= thresholds[metric_name].critical
         THEN <<Problem(metric_name \o "_critical", ProblemSeverity.CRITICAL, now)>>
         ELSE IF value.v > thresholds[metric_name].warning
         THEN <<Problem(metric_name \o "_warning", ProblemSeverity.MEDIUM, now)>>
         ELSE << >>
    ELSE << >>

ProblemsOfMetric(metric_name, value) ==
    IF metric_name \in DOMAIN thresholds /\ value.kind = "number"
    THEN IF value.v >= thresholds[metric_name].critical
         THEN <<Problem(metric_name \o "_critical", ProblemSeverity.CRITICAL, now)>>
         ELSE IF value.v >= thresholds[metric_name].warning
         THEN <<Problem(metric_name \o "_warning", ProblemSeverity.MEDIUM, now)>>
         ELSE << >>
    ELSE << >>

RECURSIVE detect_problems_from(_, _)
detect_problems_from(k, metrics) ==
    IF k > Len(MetricOrder) THEN << >>
    ELSE (IF MetricOrder[k] \in DOMAIN metrics
          THEN ProblemsOfMetric(MetricOrder[k], metrics[MetricOrder[k]])
          ELSE << >>) \o detect_problems_from(k + 1, metrics)

detect_problems(metrics) == detect_problems_from(1, metrics)

\* _detect_problems: every detector is awaited with the snapshot and a copy
\* of the history; a detector that raises is logged and skipped.
RECURSIVE DetectFrom_aborts_on_error(_, _)
DetectFrom_aborts_on_error(k, returns) ==
    IF k > Len(Detectors) \/ returns[Detectors[k]].raised THEN << >>
    ELSE returns[Detectors[k]].value \o DetectFrom_aborts_on_error(k + 1, returns)

RECURSIVE DetectFrom(_, _)
DetectFrom(k, returns) ==
    IF k > Len(Detectors) THEN << >>
    ELSE (IF returns[Detectors[k]].raised THEN << >> ELSE returns[Detectors[k]].value)
         \o DetectFrom(k + 1, returns)

_detect_problems(returns) == DetectFrom(1, returns)

\* A problem LogPatternDetectorPlugin reports for an error line.
LogProblem == Problem("log_pattern_error", ProblemSeverity.HIGH, now)

DetectProblems(log_detector_returns, threshold_detector_raises) ==
    /\ ~shutdown
    /\ framework.at = "collected"
    /\ \E log \in log_detector_returns, raises \in threshold_detector_raises :
          LET current_metrics == framework.current_metrics
              history_list == framework.metrics_history
              returns == [d \in {Detectors[k] : k \in 1..Len(Detectors)} |->
                             IF d = "log_pattern_detector" THEN log
                             ELSE IF raises THEN Raised
                             ELSE Returned(detect_problems(current_metrics))]
          IN  framework' =
                  [framework EXCEPT
                      !.at = "detected",
                      !.problems = _detect_problems(returns),
                      !.trace = @ \o [k \in 1..Len(Detectors) |->
                                    Called("detect_problems", Detectors[k], current_metrics,
                                           history_list, returns[Detectors[k]])]]
    /\ UNCHANGED <<now, deploy_vars, scheduler, pc, shutdown, learning_vars, call, result>>

\* _send_data_to_backend: the report printed as one JSON object; problems
\* and plugins are added only when their lists are not empty.
metrics_data(metrics) ==
    LET get(key) == IF key \in DOMAIN metrics THEN metrics[key] ELSE Number(0)
    IN  [timestamp |-> isoformat(now), cpuUsage |-> get("cpu_usage"),
         memoryUsage |-> get("memory_usage"), diskUsage |-> get("disk_usage"),
         metadata |-> [key \in DOMAIN metrics \
                           {"cpu_usage", "memory_usage", "disk_usage", "timestamp"} |->
                          metrics[key]]]
plugins_data ==
    [k \in 1..Len(Collectors) |-> [name |-> Collectors[k], type |-> "collector"]]
    \o [k \in 1..Len(Detectors) |-> [name |-> Detectors[k], type |-> "detector"]]
    \o [k \in 1..Len(Remediators) |-> [name |-> Remediators[k], type |-> "remediator"]]

_send_data_to_backend(metrics, problems) ==
    LET problems_data == [k \in 1..Len(problems) |-> to_dict(problems[k])]
        base == [printed |-> TRUE, metrics |-> metrics_data(metrics)]
        with_problems == IF problems_data # << >>
                         THEN [problems |-> problems_data] @@ base ELSE base
    IN  IF plugins_data # << >> THEN [plugins |-> plugins_data] @@ with_problems
        ELSE with_problems

\* The rest of the cycle: the report is printed and the loop sleeps for
\* monitoring_interval.
SendDataToBackend ==
    /\ ~shutdown
    /\ framework.at = "detected"
    /\ framework' =
           [framework EXCEPT
               !.at = "idle", !.emitted = @ + 1,
               !.report = _send_data_to_backend(framework.current_metrics, framework.problems)]
    /\ now' = now + monitoring_interval
    /\ UNCHANGED <<deploy_vars, scheduler, pc, shutdown, learning_vars, call, result>>

\* Collector and detector outputs: a healthy system, a critical CPU with a
\* failed memory probe, a log collector that also reports cpu_usage.
SystemReturns ==
    {Raised,
     Returned([cpu_usage |-> Number(50), memory_usage |-> Number(90)]),
     Returned([cpu_usage |-> Number(96), memory_usage |-> NoneMetric])}
LogReturns ==
    {Raised,
     Returned([log_entries |-> Number(3)]),
     Returned([cpu_usage |-> Number(80), log_entries |-> Number(0)])}
LogDetectorReturns == {Raised, Returned(<< >>), Returned(<<LogProblem>>)}

InitCycle == InitEngine({DefaultAiConfig})
NextCycle ==
    \/ CollectAllMetrics(SystemReturns, LogReturns, MaxRuns)
    \/ DetectProblems(LogDetectorReturns, BOOLEAN)
    \/ SendDataToBackend
SpecCycle == InitCycle /\ [][NextCycle]_vars

\* A framework that has already run HistoryCapacity - 1 cycles, one every
\* monitoring_interval, each with a snapshot of its own time only.
PriorCycles == HistoryCapacity - 1
PriorSnapshot(i) ==
    [timestamp |-> Number(8 * MinutesPerHour + 30 - (PriorCycles - i + 1) * monitoring_interval)]
InitHistory ==
    /\ now = 8 * MinutesPerHour + 30
    /\ safety_config = [business_hours_restriction |-> TRUE, max_concurrent_deployments |-> 1]
    /\ active_deployments = << >>
    /\ pc = [t \in Tasks |-> [at |-> "idle", i |-> 0, ok |-> TRUE]]
    /\ monitor = [t \in Tasks |-> [at |-> "none", end_time |-> 0, regressed |-> FALSE]]
    /\ shutdown = FALSE
    /\ scheduler = [f \in Frameworks |-> NotStarted]
    /\ framework = [NewFramework EXCEPT
                       !.n = PriorCycles, !.emitted = PriorCycles,
                       !.metrics_history = [i \in 1..PriorCycles |-> PriorSnapshot(i)]]
    /\ ai_config = DefaultAiConfig
    /\ interventions = << >>
    /\ pattern_success_rates = << >>
    /\ models = << >>
    /\ interventions_file = << >>
    /\ call = [t \in Tasks |-> NoCall]
    /\ result = [t \in Tasks |-> NoResult]
NextHistory ==
    \/ CollectAllMetrics(SystemReturns, {Raised}, HistoryCapacity + MaxRuns)
    \/ DetectProblems({Returned(<< >>)}, {FALSE})
    \/ SendDataToBackend
SpecHistory == InitHistory /\ [][NextHistory]_vars

\* ------------------------------------------- plugin lifecycle
\* self.plugins.items(): collectors, detectors, remediators, each in
\* registration order.
Plugins == Collectors \o Detectors \o Remediators
\* What plugin.initialize(config) does: returns True, returns False, raises.
InitializeOutcomes == {"True", "False", "raised"}

\* _initialize_plugins: every plugin's initialize is awaited inside its own
\* try/except; the returned value is not looked at.
RECURSIVE InitializeFrom_stops_at_error(_, _)
InitializeFrom_stops_at_error(k, outcomes) ==
    IF k > Len(Plugins) THEN << >>
    ELSE IF outcomes[Plugins[k]] = "raised"
    THEN <<[plugin |-> Plugins[k], outcome |-> outcomes[Plugins[k]]]>>
    ELSE <<[plugin |-> Plugins[k], outcome |-> outcomes[Plugins[k]]]>>
         \o InitializeFrom_stops_at_error(k + 1, outcomes)

RECURSIVE InitializeFrom(_, _)
InitializeFrom(k, outcomes) ==
    IF k > Len(Plugins) THEN << >>
    ELSE <<[plugin |-> Plugins[k], outcome |-> outcomes[Plugins[k]]]>>
         \o InitializeFrom(k + 1, outcomes)

_initialize_plugins(outcomes) == InitializeFrom(1, outcomes)

\* stop(): cleanup of every plugin, each inside its own try/except.
RECURSIVE CleanupFrom(_, _)
CleanupFrom(k, raising) ==
    IF k > Len(Plugins) THEN << >>
    ELSE <<[plugin |-> Plugins[k], raised |-> Plugins[k] \in raising]>>
         \o CleanupFrom(k + 1, raising)

PluginNames == {Plugins[k] : k \in 1..Len(Plugins)}

\* initialize(): configuration, registration, then _initialize_plugins.
InitializePlugins ==
    /\ ~shutdown
    /\ framework.at = "registered"
    /\ \E outcomes \in [PluginNames -> InitializeOutcomes] :
          framework' = [framework EXCEPT !.at = "idle",
                                         !.initialized = _initialize_plugins(outcomes)]
    /\ UNCHANGED <<now, deploy_vars, scheduler, pc, shutdown, learning_vars, call, result>>

\* main(): stop() runs in the finally clause, after the loop has ended or
\* has been interrupted at one of its awaits.
StopFramework ==
    /\ ~shutdown
    /\ framework.at \in {"idle", "collected", "detected"}
    /\ \E raising \in SUBSET PluginNames :
          framework' = [framework EXCEPT !.at = "stopped",
                                         !.cleaned = CleanupFrom(1, raising)]
    /\ UNCHANGED <<now, deploy_vars, scheduler, pc, shutdown, learning_vars, call, result>>

HealthySystem == Returned([cpu_usage |-> Number(50), memory_usage |-> Number(90)])
\* The framework after _register_default_plugins, before _initialize_plugins.
InitPlugins ==
    /\ now = 8 * MinutesPerHour + 30
    /\ safety_config = [business_hours_restriction |-> TRUE, max_concurrent_deployments |-> 1]
    /\ active_deployments = << >>
    /\ pc = [t \in Tasks |-> [at |-> "idle", i |-> 0, ok |-> TRUE]]
    /\ monitor = [t \in Tasks |-> [at |-> "none", end_time |-> 0, regressed |-> FALSE]]
    /\ shutdown = FALSE
    /\ scheduler = [f \in Frameworks |-> NotStarted]
    /\ framework = [NewFramework EXCEPT !.at = "registered"]
    /\ ai_config = DefaultAiConfig
    /\ interventions = << >>
    /\ pattern_success_rates = << >>
    /\ models = << >>
    /\ interventions_file = << >>
    /\ call = [t \in Tasks |-> NoCall]
    /\ result = [t \in Tasks |-> NoResult]
NextPlugins ==
    \/ InitializePlugins
    \/ CollectAllMetrics({Raised, HealthySystem}, {Returned([log_entries |-> Number(3)])}, MaxRuns)
    \/ DetectProblems({Returned(<< >>)}, {FALSE})
    \/ SendDataToBackend
    \/ StopFramework
SpecPlugins == InitPlugins /\ [][NextPlugins]_vars

\* -------------------------------------------- start_monitoring loops
\* start_monitoring from its entry into the first cycle.
start_monitoring(s) ==
    [s EXCEPT !.is_running = TRUE, !.at = "cycle", !.cycles = @ + 1]

_monitoring_cycle_propagates(f, s, stage) ==
    IF stage = NoValue THEN [s EXCEPT !.at = "sleep", !.error = NoValue]
    ELSE [s EXCEPT !.at = "crashed", !.is_running = FALSE, !.error = stage]

\* One cycle running to its end.  An exception raised at a stage is caught by
\* the cycle's except Exception: main.py then sleeps monitoring_interval as
\* after any cycle, enhanced_main.py sleeps 5 seconds instead of 30.
_monitoring_cycle(f, s, stage) ==
    IF stage = NoValue THEN [s EXCEPT !.at = "sleep", !.error = NoValue]
    ELSE [s EXCEPT !.at = IF f = "EnhancedMonitoringFramework" THEN "backoff" ELSE "sleep",
                   !.error = stage, !.errors = @ + 1]

\* The sleep returns and the while condition is evaluated.
while_is_running(s) ==
    IF s.is_running THEN [s EXCEPT !.at = "cycle", !.cycles = @ + 1, !.error = NoValue]
    ELSE [s EXCEPT !.at = "exited"]

stop(s) == [s EXCEPT !.is_running = FALSE, !.stopped = TRUE]

Looping(s) == s.at \in {"cycle", "sleep", "backoff"}
SchedulerStep(f, s) ==
    /\ scheduler' = [scheduler EXCEPT ![f] = s]
    /\ UNCHANGED <<now, deploy_vars, framework, pc, shutdown, learning_vars, call, result>>

StartMonitoring(f) ==
    /\ scheduler[f].at = "not_started"
    /\ SchedulerStep(f, start_monitoring(scheduler[f]))

MonitoringCycle(f) ==
    /\ scheduler[f].at = "cycle"
    /\ \E stage \in CycleStages \cup {NoValue} :
          SchedulerStep(f, _monitoring_cycle(f, scheduler[f], stage))

WakeUp(f) ==
    /\ scheduler[f].at \in {"sleep", "backoff"}
    /\ scheduler[f].is_running => scheduler[f].cycles < MaxCycles
    /\ SchedulerStep(f, while_is_running(scheduler[f]))

Stop(f) ==
    /\ scheduler[f].at # "not_started"
    /\ ~scheduler[f].stopped
    /\ SchedulerStep(f, stop(scheduler[f]))

\* The task running start_monitoring is cancelled (FrameworkAPIServer
\* .stop_framework): CancelledError is raised at the await the loop is
\* suspended in and passes every except Exception.
CancelLoop(f) ==
    /\ Looping(scheduler[f])
    /\ SchedulerStep(f, [scheduler[f] EXCEPT !.at = "cancelled"])

InitScheduler == InitEngine({DefaultAiConfig})
NextScheduler ==
    \/ \E f \in Frameworks : StartMonitoring(f)
    \/ \E f \in Frameworks : MonitoringCycle(f)
    \/ \E f \in Frameworks : WakeUp(f)
    \/ \E f \in Frameworks : Stop(f)
    \/ \E f \in Frameworks : CancelLoop(f)
SpecScheduler == InitScheduler /\ [][NextScheduler]_vars

\* ------------------------------------------- CodeFixRemediationPlugin
\* Confidences of the suggestions _get_fix_for_issue_type produces for a
\* typo in a function name and for a syntax error.
FixConfidences == {900, 700}
AutoApplyThreshold == 800

CodeFix_execute_remediation_ignores_backup(auto_apply, file_exists, confidence, backup_ok, apply_ok) ==
    IF ~file_exists
    THEN [NoResult EXCEPT !.message = "File not found or invalid location"]
    ELSE LET r0 == [NoResult EXCEPT !.confidence = confidence]
         IN  IF auto_apply /\ confidence > AutoApplyThreshold
             THEN LET r1 == [r0 EXCEPT !.ops = <<"backup", "apply">>,
                                       !.backup_created = backup_ok]
                  IN  IF apply_ok
                      THEN [r1 EXCEPT !.success = TRUE, !.message = "fix_applied"]
                      ELSE [r1 EXCEPT !.message = "Failed to apply fix"]
             ELSE [r0 EXCEPT !.success = TRUE, !.message = "fix_suggested"]

\* CodeFixRemediationPlugin.execute_remediation: with auto_apply on and a
\* confidence above 0.8 the file is copied to the backup directory and then
\* rewritten; an exception of the copy is caught by the handler's except
\* branch.  None of its awaits yields to the event loop.
CodeFix_execute_remediation(auto_apply, file_exists, confidence, backup_ok, apply_ok) ==
    IF ~file_exists
    THEN [NoResult EXCEPT !.message = "File not found or invalid location"]
    ELSE LET r0 == [NoResult EXCEPT !.confidence = confidence]
         IN  IF auto_apply /\ confidence > AutoApplyThreshold
             THEN IF ~backup_ok
                  THEN [r0 EXCEPT !.ops = <<"backup">>, !.message = "error"]
                  ELSE LET r1 == [r0 EXCEPT !.ops = <<"backup", "apply">>,
                                            !.backup_created = TRUE]
                       IN  IF apply_ok
                           THEN [r1 EXCEPT !.success = TRUE, !.message = "fix_applied"]
                           ELSE [r1 EXCEPT !.message = "Failed to apply fix"]
             ELSE [r0 EXCEPT !.success = TRUE, !.message = "fix_suggested"]

CodeFixRemediation(t) ==
    /\ Suspended(t, "idle")
    /\ \A u \in Tasks : u < t => pc[u].at # "idle"
    /\ \E auto_apply \in BOOLEAN, file_exists \in BOOLEAN, confidence \in FixConfidences,
          backup_ok \in BOOLEAN, apply_ok \in BOOLEAN :
          /\ call' = [call EXCEPT ![t] =
                 [NoCall EXCEPT !.kind = "code_fix_remediation", !.confidence = confidence]]
          /\ result' = [result EXCEPT ![t] =
                 CodeFix_execute_remediation(auto_apply, file_exists, confidence,
                                             backup_ok, apply_ok)]
    /\ pc' = [pc EXCEPT ![t].at = "returned"]
    /\ UNCHANGED <<now, deploy_vars, scheduler, framework, shutdown, learning_vars>>

\* Both writers of source files: the deployment engine and the code fix
\* plugin.
InitBackup ==
    /\ InitDeploy
    /\ ~safety_config.business_hours_restriction
NextBackup ==
    \/ NextDeploy
    \/ \E t \in Tasks : CodeFixRemediation(t)
SpecBackup == InitBackup /\ [][NextBackup]_vars

\* The deployment engine together with the monitored service's metrics.
InitMonitor ==
    /\ InitDeploy
    /\ ~safety_config.business_hours_restriction
NextMonitor ==
    \/ NextDeploy
    \/ \E t \in Tasks : MetricsRegress(t)
SpecMonitor == InitMonitor /\ [][NextMonitor]_vars

\* ------------------------------------------------- deployment engine claims
Deployed == DOMAIN active_deployments
Count(seq, x) == Cardinality({i \in 1..Len(seq) : seq[i] = x})
HappyOps ==
    <<"backup", "apply">> \o [i \in 1..TestCommands |-> "test"] \o <<"commit", "release">>

\* C1: at most max_concurrent_deployments DeploymentRecords are in_progress in
\* every reachable state, under every interleaving of concurrent deploy_fix
\* calls (the limit check and the pending->in_progress transition are one
\* uninterrupted step).  Deployment ids are taken to be unique.
C1_ConcurrencyLimit ==
    Cardinality(InProgress) <= safety_config.max_concurrent_deployments

C1_Witness ==
    /\ safety_config.max_concurrent_deployments = 2
    /\ Cardinality(InProgress) = 2

\* C2: once a value in {completed, failed, rolled_back} has been assigned to a
\* record's status, no later assignment is pending or in_progress.
C2_Monotonic ==
    \A d \in Deployed :
        LET trail == active_deployments[d].trail
        IN  \A i \in 1..(Len(trail) - 1) :
                trail[i] \in Terminal => trail[i + 1] \notin {"pending", "in_progress"}

C2_Witness ==
    \E d \in Deployed :
        active_deployments[d].trail = <<"pending", "in_progress", "failed", "rolled_back">>

\* C3: deploy_fix never ends by raising; whenever it has returned, for any
\* combination of failing steps, the returned record's status is completed,
\* failed or rolled_back.
C3_ReturnsTerminal ==
    \A t \in Tasks :
        /\ pc[t].at # "raised"
        /\ (call[t].kind = "deploy_fix" /\ pc[t].at = "returned") =>
              /\ result[t].message = "DeploymentRecord"
              /\ result[t].status \in Terminal

C3_Witness ==
    \E t \in Tasks :
        /\ call[t].kind = "deploy_fix" /\ pc[t].at = "returned"
        /\ result[t].status = "rolled_back"
        /\ active_deployments[t].test_results = "failure"

C5_HappyPath ==
    \A t \in Deployed :
        LET dep == active_deployments[t]
        IN  /\ (pc[t].at = "returned" /\ dep.ops = HappyOps /\ "error" \notin dep.metadata) =>
                  /\ dep.status = "completed"
                  /\ dep.trail = <<"pending", "in_progress", "completed">>
            /\ dep.status = "completed" =>
                  /\ dep.ops = HappyOps
                  /\ dep.test_results = "success"

C5_Witness ==
    \E t \in Deployed :
        /\ pc[t].at = "returned"
        /\ active_deployments[t].status = "completed"
        /\ active_deployments[t].commit_hash # NoValue
        /\ active_deployments[t].ops = HappyOps

\* C6: a deploy_fix call made while the safety gate fails (restricted hour,
\* or in_progress count at the limit) returns at once with the record gone
\* pending -> failed, a failure_reason in its metadata and no step executed;
\* the record never changes afterwards.
C6_GateFailure ==
    [][\A t \in Tasks :
          /\ (pc[t].at = "idle" /\ pc'[t].at # "idle" /\ ~_check_safety_constraints) =>
                /\ pc'[t].at = "returned"
                /\ active_deployments'[t].trail = <<"pending", "failed">>
                /\ active_deployments'[t].metadata = {"failure_reason"}
                /\ active_deployments'[t].ops = << >>
          /\ (t \in Deployed /\ "failure_reason" \in active_deployments[t].metadata) =>
                active_deployments'[t] = active_deployments[t]]_vars

C6_Witness ==
    \E t \in Deployed, u \in Deployed :
        /\ safety_config.max_concurrent_deployments = 1
        /\ ~safety_config.business_hours_restriction
        /\ active_deployments[u].status = "in_progress"
        /\ active_deployments[t].trail = <<"pending", "failed">>
        /\ "failure_reason" \in active_deployments[t].metadata

\* C7 as claimed: after shutdown no DeploymentRecord is left in_progress, and
\* a deployment interrupted by it is failed with a recorded reason.
C7_ShutdownFailsInProgress ==
    shutdown =>
        \A t \in Deployed :
            /\ active_deployments[t].status # "in_progress"
            /\ pc[t].at = "cancelled" =>
                  /\ active_deployments[t].status = "failed"
                  /\ active_deployments[t].metadata # {}

\* --------------------------------------------------- learning engine claims
Confidences == {600, 750, 950, 1000}
Risks == {0, 50, 300, 310}

\* Interventions that carry a deployment id and are stamped within the last hour.
RecentDeploymentCount ==
    Cardinality({i \in 1..Len(interventions) :
                    /\ interventions[i].deployment_id # NoDeployment
                    /\ now - interventions[i].timestamp < MinutesPerHour})

ConfidenceGate(c) == c >= ai_config.min_confidence
RiskGate(r) == r <= ai_config.max_risk_score
SuccessGate(pt, c, r) ==
    RatLeq(FromPermille(ai_config.min_success_probability),
           predict_intervention_success(pt, c, r))
RateGate == RecentDeploymentCount < ai_config.max_deployments_per_hour
ApprovalGate == ~ai_config.require_approval

\* C8: should_auto_apply_fix is true exactly when the five gates all pass
\* (confidence, risk, predicted success, hourly deployment count, approval
\* flag), whatever order they are taken in; it is false for confidence 0.6
\* under min_confidence 0.75 at every risk, and false whenever
\* require_approval is set.
C8_AutoApplyIffAllGates ==
    /\ \A pt \in QueryTypes, c \in Confidences, r \in Risks :
          LET decision == should_auto_apply_fix(pt, c, r)
          IN  /\ decision <=>
                    (ApprovalGate /\ RateGate /\ SuccessGate(pt, c, r) /\ RiskGate(r)
                     /\ ConfidenceGate(c))
              /\ (ai_config.min_confidence = 750 /\ c = 600) => ~decision
              /\ ai_config.require_approval => ~decision
    /\ call[1].kind = "should_auto_apply_fix" =>
          (result[1].success <=>
              (ConfidenceGate(call[1].confidence) /\ RiskGate(call[1].risk_score)
               /\ SuccessGate(call[1].problem_type, call[1].confidence, call[1].risk_score)
               /\ RateGate /\ ApprovalGate))

C8_Witness ==
    /\ call[1].kind = "should_auto_apply_fix"
    /\ result[1].success
    /\ Len(interventions) = MaxInterventions
    /\ RecentDeploymentCount = ai_config.max_deployments_per_hour - 1

\* C9: whenever the interventions carrying a deployment id and stamped within
\* the trailing hour number at least max_deployments_per_hour,
\* should_auto_apply_fix is false for every confidence and risk; while they
\* number fewer, interventions without a deployment id or older than an hour
\* never make the hourly limit reject a fix that passes the other gates.
C9_HourlyLimit ==
    LET limited == RecentDeploymentCount >= ai_config.max_deployments_per_hour
    IN  \A pt \in QueryTypes, c \in Confidences, r \in Risks :
            LET decision == should_auto_apply_fix(pt, c, r)
            IN  /\ limited => ~decision
                /\ (~limited /\ ApprovalGate /\ ConfidenceGate(c) /\ RiskGate(r)
                     /\ SuccessGate(pt, c, r)) => decision

C9_Witness ==
    /\ ai_config.max_deployments_per_hour = 3
    /\ RecentDeploymentCount = 3
    /\ call[1] = [NoCall EXCEPT !.kind = "should_auto_apply_fix", !.confidence = 950,
                                 !.risk_score = 50, !.problem_type = "log_pattern_syntax_error"]
    /\ ~result[1].success
    /\ ConfidenceGate(950) /\ RiskGate(50) /\ ApprovalGate
    /\ SuccessGate("log_pattern_syntax_error", 950, 50)

\* C10: an execute_remediation call whose should_auto_apply_fix is false
\* returns the 'requires manual approval' result with the suggestion and the
\* computed risk score, and changes nothing else: the intervention log, the
\* learned rates, the models, the deployment records and the monitors stay.
C10_RejectionChangesNothing ==
    [][\A t \in Tasks :
          (/\ pc[t].at = "idle" /\ pc'[t].at # "idle"
           /\ call'[t].kind = "execute_remediation"
           /\ _generate_ai_fix(call'[t].problem_type) # NoFix
           /\ ~should_auto_apply_fix(call'[t].problem_type, call'[t].confidence,
                                     call'[t].risk_score)) =>
              /\ pc'[t].at = "returned"
              /\ result'[t].message = "AI fix generated, requires manual approval"
              /\ result'[t].requires_approval /\ ~result'[t].auto_applied
              /\ ~result'[t].success
              /\ result'[t].suggestion = _generate_ai_fix(call'[t].problem_type).description
              /\ result'[t].risk_score =
                    _calculate_risk_score(call'[t].severity,
                                          _generate_ai_fix(call'[t].problem_type))
              /\ UNCHANGED <<interventions, pattern_success_rates, models,
                             interventions_file, ai_config, active_deployments, monitor>>
              /\ t \notin DOMAIN active_deployments']_vars

C10_Witness ==
    \E t \in Tasks :
        /\ result[t].requires_approval
        /\ ai_config = PermissiveAiConfig
        /\ Len(interventions) = 1
        /\ t \notin Deployed

\* -------------------------------------------------------- plugin claims
InterventionsOf(id) == {i \in 1..Len(interventions) : interventions[i].deployment_id = id}

\* C11: an execute_remediation call that auto-applies creates exactly one
\* DeploymentRecord and, when it returns, has recorded exactly one
\* Intervention carrying that deployment's id, with outcome success if the
\* record's status is completed and failure otherwise; the result's success
\* flag agrees with the outcome.  Calls that do not auto-apply have none.
C11_OneRecordOneIntervention ==
    \A t \in Tasks :
        /\ Cardinality(InterventionsOf(t)) <= 1
        /\ (call[t].kind = "execute_remediation" /\ t \in Deployed /\ pc[t].at = "returned") =>
              /\ result[t].auto_applied /\ result[t].deployment_id = active_deployments[t].id
              /\ \E i \in 1..Len(interventions) :
                    /\ InterventionsOf(t) = {i}
                    /\ interventions[i].problem_type = call[t].problem_type
                    /\ interventions[i].outcome =
                          (IF active_deployments[t].status = "completed"
                           THEN "success" ELSE "failure")
                    /\ result[t].success <=> interventions[i].outcome = "success"
        /\ (pc[t].at # "returned" \/ t \notin Deployed) =>
              /\ InterventionsOf(t) = {}
              /\ ~result[t].auto_applied
        /\ t \in Deployed => active_deployments[t].id = t

C11_Witness ==
    \E t, u \in Tasks :
        /\ result[t].auto_applied /\ result[t].success
        /\ active_deployments[t].status = "completed"
        /\ result[u].auto_applied /\ ~result[u].success
        /\ active_deployments[u].status = "rolled_back"
        /\ Len(interventions) = 2

\* ------------------------------------------------------ prediction claims
UnitGrid == {k * 100 : k \in 0..10}
InUnitRange(x) == RatLeq(Zero, x) /\ RatLeq(x, One)
Recorded(pt) == OfType(interventions, pt)
IsPredictCall == call[1].kind = "predict_intervention_success"

\* C12: for every problem type, with or without a learned pattern, and all
\* confidence and risk_score in [0,1], predict_intervention_success returns
\* a value in [0,1].
C12_PredictionInUnitRange ==
    /\ \A pt \in QueryTypes, c \in UnitGrid, r \in UnitGrid :
          InUnitRange(predict_intervention_success(pt, c, r))
    /\ (IsPredictCall /\ call[1].confidence \in 0..Permille
                      /\ call[1].risk_score \in 0..Permille) =>
          InUnitRange(result[1].value)

C12_Witness ==
    /\ IsPredictCall
    /\ call[1].confidence = 1000 /\ call[1].risk_score = 0
    /\ Recorded(call[1].problem_type) # {}
    /\ pattern_success_rates[call[1].problem_type] = One
    /\ result[1].value = One

\* The law of the learned branch: clamp(rate + ((c-0.5)*2 + (0.5-r)*2)*0.2, 0, 1).
Clamp01(x) == IF RatLt(x, Zero) THEN Zero ELSE IF RatLt(One, x) THEN One ELSE x
LearnedLaw(rate, c, r) ==
    Clamp01(RatAdd(rate, Rat(((c - 500) * 2 + (500 - r) * 2) * 2, 10 * Permille)))
FallbackLaw(c, r) == IF c - r < 0 THEN Zero ELSE Rat(c - r, Permille)

\* C13: for a problem type with zero recorded interventions the prediction
\* equals max(0, c - r); for a problem type with a learned pattern it equals
\* clamp(success_rate + ((c-0.5)*2 + (0.5-r)*2)*0.2, 0, 1).
C13_PredictionLaw ==
    /\ \A pt \in QueryTypes, c \in UnitGrid, r \in UnitGrid :
          /\ Recorded(pt) = {} =>
                predict_intervention_success(pt, c, r) = FallbackLaw(c, r)
          /\ Recorded(pt) # {} =>
                /\ pt \in DOMAIN pattern_success_rates
                /\ predict_intervention_success(pt, c, r) =
                      LearnedLaw(pattern_success_rates[pt], c, r)
    /\ (IsPredictCall /\ call[1].confidence \in 0..Permille
                      /\ call[1].risk_score \in 0..Permille) =>
          result[1].value =
              (IF Recorded(call[1].problem_type) = {}
               THEN FallbackLaw(call[1].confidence, call[1].risk_score)
               ELSE LearnedLaw(pattern_success_rates[call[1].problem_type],
                               call[1].confidence, call[1].risk_score))

C13_Witness ==
    /\ IsPredictCall
    /\ call[1].confidence = 800 /\ call[1].risk_score = 200
    /\ Recorded(call[1].problem_type) # {}
    /\ pattern_success_rates[call[1].problem_type] = Rat(1, 2)
    /\ result[1].value = Rat(74, 100)

\* C14: predict_intervention_success clamps out-of-range inputs: for
\* confidence above 1 or risk_score below 0 (confidence 1.5, risk -0.1) it
\* still returns a value in [0,1], with or without a learned pattern.
C14_OutOfRangeInputsClamped ==
    IsPredictCall => InUnitRange(result[1].value)

AdjustmentCap == 200
RatSub(a, b) == RatAdd(a, <<-b[1], b[2]>>)
RatAbs(a) == <<Abs(a[1]), a[2]>>

\* C16: for a problem type whose learned success_rate is at least 0.5, with
\* risk_score held fixed, the prediction is non-decreasing in confidence,
\* and for in-range inputs it never differs from the learned success_rate by
\* more than the adjustment cap of 20%.
C16_MonotoneWithinCap ==
    \A pt \in DOMAIN pattern_success_rates :
        RatLeq(Rat(1, 2), pattern_success_rates[pt]) =>
            \A r \in UnitGrid, c1 \in UnitGrid :
                /\ \A c2 \in UnitGrid :
                      c1 <= c2 => RatLeq(predict_intervention_success(pt, c1, r),
                                         predict_intervention_success(pt, c2, r))
                /\ RatLeq(RatAbs(RatSub(predict_intervention_success(pt, c1, r),
                                        pattern_success_rates[pt])),
                          FromPermille(AdjustmentCap))

\* C20: for a problem type with no recorded interventions, under
\* min_confidence 0.7, max_risk_score 0.4, min_success_probability 0.6,
\* require_approval off and no deployment in the last hour,
\* should_auto_apply_fix(pt, 0.8, 0.3) returns true.
C20_ApprovesWithoutHistory ==
    (/\ ai_config = IntegrationAiConfig
     /\ call[1].kind = "should_auto_apply_fix"
     /\ call[1].confidence = 800 /\ call[1].risk_score = 300
     /\ Recorded(call[1].problem_type) = {}
     /\ RecentDeploymentCount = 0) =>
        result[1].success

\* -------------------------------------------------- rates and training claims
OutcomesOf(pt) ==
    LET idx == Recorded(pt)
        F[i \in 0..Len(interventions)] ==
            IF i = 0 THEN << >>
            ELSE IF i \in idx THEN Append(F[i - 1], interventions[i].outcome) ELSE F[i - 1]
    IN  F[Len(interventions)]
CountOutcome(pt, outcome) ==
    Cardinality({i \in Recorded(pt) : interventions[i].outcome = outcome})

\* C15: for every problem type with at least one recorded intervention the
\* learned success rate equals (successes + 0.5 * partials) / (all
\* interventions of that type) over the full log; [success x4, failure]
\* gives 0.8, [success, failure, partial, partial, success] gives 0.6, and
\* interventions of other problem types do not affect it.
C15_SuccessRate ==
    \A pt \in RateTypes :
        /\ Recorded(pt) = {} => pt \notin DOMAIN pattern_success_rates
        /\ Recorded(pt) # {} =>
              /\ pt \in DOMAIN pattern_success_rates
              /\ pattern_success_rates[pt][1] * 2 * Cardinality(Recorded(pt)) =
                    (2 * CountOutcome(pt, "success") + CountOutcome(pt, "partial"))
                        * pattern_success_rates[pt][2]
        /\ OutcomesOf(pt) = <<"success", "success", "success", "success", "failure">> =>
              pattern_success_rates[pt] = Rat(8, 10)
        /\ OutcomesOf(pt) = <<"success", "failure", "partial", "partial", "success">> =>
              pattern_success_rates[pt] = Rat(6, 10)

C15_Witness ==
    /\ OutcomesOf("log_pattern_syntax_error") =
          <<"success", "failure", "partial", "partial", "success">>
    /\ OutcomesOf("log_pattern_api_timeout") = <<"success">>
    /\ pattern_success_rates["log_pattern_syntax_error"] = Rat(3, 5)
    /\ pattern_success_rates["log_pattern_api_timeout"] = One

\* C17: the intervention log is append-only: every step leaves the recorded
\* interventions in place and in order, and a record_intervention call adds
\* exactly one, the given intervention, at the end; retraining and saving
\* leave the log as it is.
C17_AppendOnly ==
    [][LET n == Len(interventions)
       IN  /\ Len(interventions') \in {n, n + 1}
           /\ SubSeq(interventions', 1, n) = interventions
           /\ RecordOutcome(RecordTypes, TrainOutcomes, MaxRecorded) =>
                 /\ Len(interventions') = n + 1
                 /\ interventions'[n + 1].problem_type = call'[1].problem_type
                 /\ interventions'[n + 1].confidence = call'[1].confidence
                 /\ Parsed(interventions_file') = interventions'
           /\ RetrainModels => interventions' = interventions]_vars

C17_Witness ==
    /\ Len(interventions) = MaxRecorded
    /\ DOMAIN models # {}
    /\ Parsed(interventions_file) = interventions
    /\ \A outcome \in TrainOutcomes : CountOutcome("log_pattern_syntax_error", outcome) > 0

TrainableTypes(log) ==
    {pt \in TypesIn(log) : Cardinality(OfType(log, pt)) >= MinTrainingData}

C19_ModelAfterFive ==
    (/\ ai_config.retrain_frequency = 5
     /\ OutcomesOf("log_pattern_syntax_error") =
           <<"success", "success", "success", "success", "failure">>
     /\ Len(interventions) = 5) =>
        \E k \in DOMAIN models :
            /\ models[k].problem_type = "log_pattern_syntax_error"
            /\ models[k].training_data_size = 5
            /\ models[k].accuracy = Rat(8, 10)
            /\ models[k].is_active

\* ------------------------------------------------------ concurrency claims
RecordedBy(t) ==
    {i \in 1..Len(interventions) :
        /\ interventions[i].timestamp = now
        /\ interventions[i].confidence = TaskConfidence(t)}
PriorEntries == {i \in 1..Len(interventions) : interventions[i].timestamp < now}
ReturnedTasks == {t \in Tasks : pc[t].at = "returned"}
TasksWith(outcome) == {t \in Tasks : call[t].outcome = outcome}

\* C21: when N record_intervention calls run concurrently, under every
\* interleaving each intervention is in the log exactly once when its call
\* has returned (none lost, none duplicated), the interventions recorded
\* earlier stay, and once all have returned the learned success rate of
\* their problem type is the weighted average of the outcomes in the log
\* (of the N outcomes when the type had no earlier history).
C21_ConcurrentRecords ==
    /\ \A t \in Tasks :
          /\ Cardinality(RecordedBy(t)) = (IF t \in ReturnedTasks THEN 1 ELSE 0)
          /\ \A i \in RecordedBy(t) :
                /\ interventions[i].outcome = call[t].outcome
                /\ interventions[i].problem_type = call[t].problem_type
    /\ Len(interventions) = Cardinality(PriorEntries) + Cardinality(ReturnedTasks)
    /\ Parsed(interventions_file) = interventions
    /\ ReturnedTasks = Tasks =>
          LET pt == "log_pattern_syntax_error"
              rate == pattern_success_rates[pt]
          IN  /\ rate[1] * 2 * Cardinality(Recorded(pt)) =
                    (2 * CountOutcome(pt, "success") + CountOutcome(pt, "partial")) * rate[2]
              /\ Recorded(pt) \cap PriorEntries = {} =>
                    rate[1] * 2 * MaxTasks =
                        (2 * Cardinality(TasksWith("success"))
                         + Cardinality(TasksWith("partial"))) * rate[2]

C21_Witness ==
    /\ ReturnedTasks = Tasks
    /\ TasksWith("success") # {} /\ TasksWith("failure") # {}
    /\ Cardinality(PriorEntries) = MaxPrior
    /\ Recorded("log_pattern_syntax_error") \cap PriorEntries = {}
    /\ interventions[Len(interventions)].confidence = TaskConfidence(1)

LoadStep == pc[LoadTask].at = "scheduled" /\ pc'[LoadTask].at = "returned"
StampedNow(log) == SelectSeq(log, LAMBDA i : i.timestamp = now)
StampedEarlier(log) == SelectSeq(log, LAMBDA i : i.timestamp < now)

\* C22: the intervention log survives a restart: the persisted file is never
\* overwritten with fewer interventions than it held, and when the load of
\* the new engine completes the in-memory log holds the interventions of
\* the previous process in their order, once each, and every intervention
\* recorded on the new engine once, for every interleaving of the load task
\* with record_intervention calls.
C22_LogSurvivesRestart ==
    [][/\ Len(interventions_file') >= Len(interventions_file)
       /\ StampedEarlier(Parsed(interventions_file')) =
             StampedEarlier(Parsed(interventions_file))
       /\ LoadStep =>
             /\ StampedEarlier(interventions') = StampedEarlier(Parsed(interventions_file))
             /\ StampedNow(interventions') = StampedNow(interventions)]_vars

StrategyGrid == {0, 650, 699, 700, 800, 899, 900, 950, 1000}
StrategyLaw(confidence) ==
    CASE confidence >= 900 -> "direct_deployment"
      [] confidence >= 700 /\ confidence < 900 -> "canary_deployment"
      [] confidence < 700 -> "blue_green_deployment"

\* C24: the release strategy is a function of confidence alone: at least
\* 0.9 gives direct, from 0.7 up to 0.9 canary, below 0.7 blue-green,
\* whatever the engine's state and earlier deployments; every deployment's
\* strategy is one of the three.
C24_StrategyByConfidence ==
    /\ \A c \in StrategyGrid : _determine_deployment_strategy(c) = StrategyLaw(c)
    /\ \A t \in Deployed :
          /\ active_deployments[t].strategy = StrategyLaw(call[t].confidence)
          /\ active_deployments[t].strategy \in
                {"direct_deployment", "canary_deployment", "blue_green_deployment"}

C24_Witness ==
    \E t, u \in Deployed :
        /\ active_deployments[t].strategy = "direct_deployment"
        /\ active_deployments[u].strategy = "canary_deployment"
        /\ active_deployments[t].status = "failed"
        /\ active_deployments[u].status = "completed"

\* ----------------------------------------------------- risk score claims
SeverityRank(severity) ==
    CASE severity = "LOW" -> 0 [] severity = "MEDIUM" -> 1
      [] severity = "HIGH" -> 2 [] severity = "CRITICAL" -> 3
SeverityAddend == [LOW |-> 0, MEDIUM |-> 100, HIGH |-> 200, CRITICAL |-> 300]
FixTypeAddend ==
    [syntax_correction |-> 100, connection_resilience |-> 200, timeout_handling |-> 150,
     security_fix |-> 400, unknown |-> 300]
\* Ten thousandths, so that (1 - confidence) * 0.3 is exact.
RiskLaw10(severity, confidence, fix_type) ==
    LET sum == 2000 + 10 * SeverityAddend[severity] + (Permille - confidence) * 3
               + 10 * FixTypeAddend[fix_type]
    IN  IF sum > 10 * Permille THEN 10 * Permille ELSE IF sum < 0 THEN 0 ELSE sum
RiskCalls == {t \in Tasks : call[t].kind = "_calculate_risk_score"}

\* C25: the risk score equals 0.2 + severity addend + (1 - confidence) * 0.3
\* + fix-type addend, clamped to [0,1]; it lies in [0,1] for every severity,
\* fix type and confidence, is non-decreasing in severity and non-increasing
\* in confidence.
C25_RiskScore ==
    \A t \in RiskCalls :
        LET sev == call[t].severity
            fix == result[t].suggestion
            risk == result[t].risk_score
        IN  /\ 10 * risk = RiskLaw10(sev, fix.confidence, fix.fix_type)
            /\ risk \in 0..Permille
            /\ \A sev2 \in Severities :
                  SeverityRank(sev) <= SeverityRank(sev2) =>
                      risk <= _calculate_risk_score(sev2, fix)
            /\ \A c2 \in RiskConfidences :
                  fix.confidence <= c2 =>
                      _calculate_risk_score(sev, [fix EXCEPT !.confidence = c2]) <= risk

C25_Witness ==
    \E t \in RiskCalls :
        /\ call[t].severity = "CRITICAL"
        /\ result[t].suggestion.fix_type = "security_fix"
        /\ result[t].suggestion.confidence = 0
        /\ result[t].risk_score = Permille

\* ----------------------------------------------------- failed steps
\* C26 as claimed: a deployment whose backup, apply, validation, commit or
\* release step failed never reaches completed; after a failed commit (no
\* commit hash captured) the release strategy is not executed and the
\* deployment is failed, so every completed deployment has a commit_hash.
C26_FailedStepNeverCompletes ==
    \A d \in DOMAIN active_deployments :
        LET dep == active_deployments[d]
            released == \E k \in 1..Len(dep.ops) : dep.ops[k] = "release"
        IN  /\ dep.status = "completed" => dep.commit_hash # NoValue
            /\ ~(released /\ dep.commit_hash = NoValue)
            /\ dep.test_results = "failure" => dep.status # "completed"

\* ----------------------------------------------------- post-deployment watch
WatchEnded(t) == monitor[t].at = "done"

\* C27 as claimed: a rollback trigger firing during the monitoring window
\* moves the completed deployment to rolled_back, with the prior commit
\* reverted exactly once and the release re-executed; when no trigger fires
\* the watch ends with the status still completed.
C27_WatchRollsBackOnTrigger ==
    \A t \in Tasks :
        WatchEnded(t) =>
            LET dep == active_deployments[t]
            IN  IF monitor[t].regressed
                THEN /\ dep.status = "rolled_back"
                     /\ Count(dep.ops, "git_reset") = 1
                     /\ Count(dep.ops, "redeploy") = 1
                ELSE dep.status = "completed"

\* ----------------------------------------------------- backup before write
Positions(ops, op) == {k \in 1..Len(ops) : ops[k] = op}
BackupFirst(ops) ==
    \A k \in Positions(ops, "apply") : \E j \in Positions(ops, "backup") : j < k

\* C28: fix content is written to a file only after a backup of it was
\* created in the same attempt, and a failing backup step leaves the file
\* unwritten, for deployments of the DeploymentEngine and for fixes
\* auto-applied by the CodeFixRemediationPlugin.
C28_BackupPrecedesWrite ==
    /\ \A d \in DOMAIN active_deployments : BackupFirst(active_deployments[d].ops)
    /\ \A t \in Tasks, apply_ok \in BOOLEAN :
          Positions(deploy_fix(t, ConfidenceOfCall(t), FALSE, apply_ok).dep.ops, "apply") = {}
    /\ \A t \in Tasks :
          call[t].kind = "code_fix_remediation" =>
              /\ BackupFirst(result[t].ops)
              /\ Positions(result[t].ops, "apply") # {} => result[t].backup_created

C28_Witness ==
    \E t, u \in Tasks :
        /\ call[t].kind = "code_fix_remediation"
        /\ result[t].ops = <<"backup", "apply">>
        /\ result[t].success
        /\ u \in DOMAIN active_deployments
        /\ active_deployments[u].status = "completed"
        /\ Positions(active_deployments[u].ops, "apply") # {}

\* ----------------------------------------------------- business hours
HourOf(minutes) == (minutes \div 60) % 24
Starts(t) == pc[t].at = "idle" /\ pc'[t].at # "idle"
GateFailed(dep) == dep.trail = <<"pending", "failed">> /\ "failure_reason" \in dep.metadata

\* C29: with the business-hours restriction on, a deployment started at an
\* hour h with 9 <= h <= 17 (17 included) is blocked and ends failed; at
\* every other hour, and at every hour with the restriction off, the gate
\* fails exactly when the in_progress count has reached the limit.
C29_BusinessHoursGate ==
    [][\A t \in Tasks :
          Starts(t) =>
              LET h == HourOf(now)
                  dep == active_deployments'[t]
              IN  IF safety_config.business_hours_restriction /\ 9 <= h /\ h <= 17
                  THEN GateFailed(dep) /\ pc'[t].at = "returned"
                  ELSE GateFailed(dep) <=>
                          Cardinality({d \in DOMAIN active_deployments :
                                         active_deployments[d].status = "in_progress"})
                              >= safety_config.max_concurrent_deployments]_vars

C29_Witness ==
    /\ safety_config.business_hours_restriction
    /\ HourOf(now) = 17
    /\ DOMAIN active_deployments = {1}
    /\ GateFailed(active_deployments[1])
    /\ pc[1].at = "returned"

\* ----------------------------------------------------- scheduler loop
CycleStarts(f) == scheduler'[f].cycles > scheduler[f].cycles
LoopStep(f) ==
    /\ scheduler'[f] # scheduler[f]
    /\ scheduler'[f].stopped = scheduler[f].stopped
    /\ scheduler'[f].at # "cancelled"

InCycle == framework.at \in {"collected", "detected"}
EventsOf(op) == SelectSeq(framework.trace, LAMBDA e : e.op = op)
Providers(events, key) ==
    {k \in 1..Len(events) : ~events[k].returned.raised
                              /\ key \in DOMAIN events[k].returned.value}
Highest(set) == CHOOSE k \in set : \A j \in set : j <= k

\* C31: the snapshot of a cycle is the merge, in registration order, of the
\* maps of the collectors that did not raise, the later collector winning
\* a key both return; a collector that raises adds no key, the others are
\* still called and the cycle goes on to detection.
C31_SnapshotIsOrderedMerge ==
    InCycle =>
        LET events == EventsOf("collect_metrics")
            snapshot == framework.current_metrics
        IN  /\ [k \in 1..Len(events) |-> events[k].plugin] = Collectors
            /\ DOMAIN snapshot =
                  {"timestamp"} \cup UNION {DOMAIN events[k].returned.value :
                                              k \in {j \in 1..Len(events) :
                                                        ~events[j].returned.raised}}
            /\ \A key \in DOMAIN snapshot :
                  IF Providers(events, key) = {}
                  THEN key = "timestamp" /\ snapshot[key] = Number(now)
                  ELSE snapshot[key] =
                          events[Highest(Providers(events, key))].returned.value[key]
            /\ framework.at = "collected" =>
                  ENABLED DetectProblems(LogDetectorReturns, BOOLEAN)

C31_Witness ==
    /\ framework.at = "detected"
    /\ framework.n = 2
    /\ DOMAIN framework.current_metrics =
          {"timestamp", "cpu_usage", "memory_usage", "log_entries"}
    /\ framework.current_metrics["cpu_usage"] = Number(80)
    /\ framework.current_metrics["memory_usage"] = Number(90)
    /\ framework.metrics_history[1] = [timestamp |-> Number(now - monitoring_interval),
                                        log_entries |-> Number(3)]

OutputOf(event) == IF event.returned.raised THEN << >> ELSE event.returned.value
RECURSIVE Concatenation(_)
Concatenation(events) ==
    IF events = << >> THEN << >>
    ELSE OutputOf(Head(events)) \o Concatenation(Tail(events))
FirstPosition(op) == CHOOSE k \in 1..Len(framework.trace) :
                        /\ framework.trace[k].op = op
                        /\ \A j \in 1..(k - 1) : framework.trace[j].op # op

\* C32: in a cycle every detector is called after all collectors returned,
\* with that cycle's complete snapshot and a history that already ends
\* with it; the problem list is the concatenation, in registration order,
\* of the outputs of the detectors that did not raise.
C32_DetectionSeesOwnSnapshot ==
    framework.at = "detected" =>
        LET collects == EventsOf("collect_metrics")
            detects == EventsOf("detect_problems")
        IN  /\ framework.trace = collects \o detects
            /\ Len(collects) = Len(Collectors)
            /\ [k \in 1..Len(detects) |-> detects[k].plugin] = Detectors
            /\ \A k \in 1..Len(detects) :
                  /\ detects[k].metrics = framework.current_metrics
                  /\ detects[k].metrics["timestamp"] = Number(now)
                  /\ detects[k].history # << >>
                  /\ detects[k].history[Len(detects[k].history)] = detects[k].metrics
                  /\ Len(detects[k].history) = framework.n
            /\ framework.problems = Concatenation(detects)

C32_Witness ==
    /\ framework.at = "detected"
    /\ framework.n = 2
    /\ framework.trace[FirstPosition("detect_problems")].returned.raised
    /\ Len(framework.problems) = 1
    /\ framework.problems[1].type = "cpu_usage_critical"

\* SystemRemediationPlugin.can_handle_problem: the problem type contains
\* cpu, memory, disk or system.
can_handle_problem(problem) ==
    problem.type \in {"cpu_usage_critical", "cpu_usage_warning", "memory_usage_critical",
                      "memory_usage_warning", "disk_usage_critical", "disk_usage_warning"}
Remediated(remediator, problem) ==
    \E k \in 1..Len(framework.trace) :
        /\ framework.trace[k].op = "execute_remediation"
        /\ framework.trace[k].plugin = remediator
        /\ framework.trace[k].metrics = problem
CycleReported == framework.at = "idle" /\ framework.n > 0

\* C33 as claimed: when a cycle's report is emitted, every remediator whose
\* can_handle accepts a detected problem has had execute_remediation
\* invoked for it, and no remediator was invoked for a problem it does not
\* handle or in a cycle without problems.
C33_RemediatorsInvoked ==
    CycleReported =>
        \A k \in 1..Len(framework.problems), r \in 1..Len(Remediators) :
            Remediated(Remediators[r], framework.problems[k])
                <=> can_handle_problem(framework.problems[k])

\* ----------------------------------------------------- metrics history
CycleBegins == framework'.n = framework.n + 1
Stamp(snapshot) == snapshot["timestamp"].v
LastStamp(fw, time) == IF fw.at = "idle" THEN time - monitoring_interval ELSE time

\* C34: the metrics history never holds more than 1000 snapshots; a cycle
\* appends exactly one snapshot at the end, evicting exactly the oldest one
\* once the capacity is reached, so the history is the most recent
\* min(n, 1000) snapshots in cycle order.
C34_BoundedFifo ==
    [][LET old == framework.metrics_history
           new == framework'.metrics_history
       IN  /\ Len(new) <= 1000
           /\ Len(new) = Min(framework'.n, 1000)
           /\ IF CycleBegins
              THEN /\ new[Len(new)] = framework'.current_metrics
                   /\ SubSeq(new, 1, Len(new) - 1) =
                         (IF Len(old) = 1000 THEN Tail(old) ELSE old)
              ELSE new = old
           /\ \A i \in 1..Len(new) :
                 Stamp(new[i]) = LastStamp(framework', now') - (Len(new) - i) * monitoring_interval
      ]_vars

C34_Witness ==
    /\ framework.n = HistoryCapacity + 2
    /\ framework.at = "idle"
    /\ Len(framework.metrics_history) = HistoryCapacity
    /\ framework.metrics_history[1] = PriorSnapshot(3)
    /\ "cpu_usage" \in DOMAIN framework.metrics_history[HistoryCapacity]

\* ----------------------------------------------------- cycle report
SeverityNames == {"LOW", "MEDIUM", "HIGH", "CRITICAL"}
IsIsoText(text) == text \in (0..23) \X (0..59)

\* C35 as claimed: every cycle prints exactly one report, which has the keys
\* metrics, problems and plugins; its problems are exactly those detected
\* in the cycle, each with its severity as the level's name and its
\* timestamp as ISO text.
C35_ReportPerCycle ==
    CycleReported =>
        /\ framework.emitted = framework.n
        /\ framework.report.printed
        /\ {"metrics", "problems", "plugins"} \subseteq DOMAIN framework.report
        /\ Len(framework.report.problems) = Len(framework.problems)
        /\ \A k \in 1..Len(framework.problems) :
              /\ framework.report.problems[k].type = framework.problems[k].type
              /\ framework.report.problems[k].severity \in SeverityNames
              /\ framework.report.problems[k].severity = framework.problems[k].severity.name
              /\ IsIsoText(framework.report.problems[k].timestamp)
              /\ fromisoformat(framework.report.problems[k].timestamp)
                    = framework.problems[k].timestamp

\* ----------------------------------------------------- threshold detector
WarningAt == [cpu_usage |-> 80, memory_usage |-> 85, disk_usage |-> 85]
CriticalAt == [cpu_usage |-> 95, memory_usage |-> 95, disk_usage |-> 95]
ThresholdValues == {Number(v) : v \in {0, 79, 80, 84, 85, 94, 95, 96, 100}} \cup {NoneMetric}
ThresholdMetrics == {"cpu_usage", "memory_usage", "disk_usage", "log_entries", "timestamp"}
ExpectedProblems(metric, value) ==
    IF metric \notin DOMAIN WarningAt \/ value.kind # "number" THEN {}
    ELSE IF value.v >= CriticalAt[metric]
    THEN {[type |-> metric \o "_critical", severity |-> "CRITICAL"]}
    ELSE IF value.v >= WarningAt[metric]
    THEN {[type |-> metric \o "_warning", severity |-> "MEDIUM"]}
    ELSE {}
Kinds(problems) ==
    {[type |-> problems[k].type, severity |-> problems[k].severity.name] :
        k \in 1..Len(problems)}
ThresholdCalls ==
    SelectSeq(framework.trace,
              LAMBDA e : e.op = "detect_problems" /\ e.plugin = "threshold_detector"
                         /\ ~e.returned.raised)

\* C36: the threshold detector reports, for a metric with thresholds and a
\* numeric value v, one CRITICAL '<metric>_critical' problem if
\* v >= critical, else one MEDIUM '<metric>_warning' problem if
\* v >= warning, else nothing; a metric without thresholds or with a
\* non-numeric value yields nothing, and every severity is one of the four
\* levels.
C36_ThresholdProblems ==
    /\ \A metric \in ThresholdMetrics, value \in ThresholdValues :
          LET problems == detect_problems((metric :> value))
          IN  /\ Kinds(problems) = ExpectedProblems(metric, value)
              /\ Len(problems) = Cardinality(ExpectedProblems(metric, value))
    /\ \A k \in 1..Len(ThresholdCalls) :
          LET problems == ThresholdCalls[k].returned.value
              metrics == ThresholdCalls[k].metrics
          IN  /\ Kinds(problems) =
                    UNION {ExpectedProblems(metric, metrics[metric]) : metric \in DOMAIN metrics}
              /\ Len(problems) = Cardinality(Kinds(problems))
              /\ \A j \in 1..Len(problems) :
                    problems[j].severity \in {ProblemSeverity[name] : name \in SeverityNames}

C36_Witness ==
    /\ framework.at = "detected"
    /\ Len(ThresholdCalls) = 1
    /\ ThresholdCalls[1].metrics =
          [timestamp |-> Number(now), cpu_usage |-> Number(80), memory_usage |-> Number(90),
           log_entries |-> Number(0)]
    /\ Kinds(ThresholdCalls[1].returned.value) =
          {[type |-> "cpu_usage_warning", severity |-> "MEDIUM"],
           [type |-> "memory_usage_warning", severity |-> "MEDIUM"]}

\* ----------------------------------------------------- rollback and the file
\* C37 as claimed: when deploy_fix ends with the deployment failed or
\* rolled_back, the affected file holds what it held before the deployment,
\* also when the fix content had been written to it.
C37_RollbackRestoresFile ==
    \A t \in Deployed :
        (pc[t].at = "returned" /\ active_deployments[t].status \in {"failed", "rolled_back"})
            => active_deployments[t].file = "original"

\* ----------------------------------------------------- hourly limit
\* deploy_fix invocations made by execute_remediation calls within the last
\* hour (every call of a behaviour falls within one hour).
StartedDeployments == {t \in Deployed : call[t].kind = "execute_remediation"}

\* C38 as claimed: under any interleaving of concurrent execute_remediation
\* calls the deployments started within an hour never exceed
\* max_deployments_per_hour.
C38_HourlyLimitUnderConcurrency ==
    Cardinality(StartedDeployments) <= ai_config.max_deployments_per_hour


\* C39: with the built-in suggestions and max_risk_score at its default 0.3,
\* every execute_remediation call on a recognized problem type, at any
\* severity, computes a risk score above max_risk_score and returns the
\* suggestion for manual approval: no deployment is started and no
\* intervention is recorded, with approval off, no history and no limit hit.
BuiltinCalls ==
    {t \in Tasks : call[t].kind = "execute_remediation"
                     /\ call[t].problem_type \in recognized_types}
C39_BuiltinFixesNeverDeployed ==
    /\ \A t \in BuiltinCalls :
          /\ call[t].risk_score =
                _calculate_risk_score(call[t].severity, _generate_ai_fix(call[t].problem_type))
          /\ call[t].risk_score > ai_config.max_risk_score
          /\ pc[t].at = "returned"
          /\ result[t] = ManualApproval(_generate_ai_fix(call[t].problem_type),
                                        call[t].risk_score)
    /\ active_deployments = << >>
    /\ interventions = << >>
C39_Witness ==
    /\ ai_config = DefaultRiskAiConfig
    /\ ~ai_config.require_approval
    /\ BuiltinCalls = Tasks
    /\ \E t \in Tasks : call[t].problem_type = "log_pattern_syntax_error"
                         /\ call[t].severity = "LOW" /\ call[t].risk_score = 360
    /\ \E t \in Tasks : call[t].problem_type = "log_pattern_database_connection_error"
                         /\ call[t].severity = "CRITICAL"
    /\ \A t \in Tasks : result[t].requires_approval /\ ~result[t].auto_applied
    /\ active_deployments = << >>
    /\ interventions = << >>
    /\ pattern_success_rates = << >>


\* C40: initialize results do not gate use.  Every registered plugin's
\* initialize is awaited whatever the earlier ones returned or raised; every
\* cycle calls every registered collector and detector, those whose
\* initialize returned False or raised included; and stop() calls cleanup on
\* every registered plugin even when an earlier cleanup raised.
PluginsOf(events) == [k \in 1..Len(events) |-> events[k].plugin]
FailedToInitialize ==
    {framework.initialized[k].plugin : k \in
        {j \in 1..Len(framework.initialized) : framework.initialized[j].outcome # "True"}}
C40_InitializeDoesNotGate ==
    /\ framework.at # "registered" => PluginsOf(framework.initialized) = Plugins
    /\ InCycle => PluginsOf(EventsOf("collect_metrics")) = Collectors
    /\ framework.at = "detected" => PluginsOf(EventsOf("detect_problems")) = Detectors
    /\ framework.at = "stopped" => PluginsOf(framework.cleaned) = Plugins
C40_Witness ==
    /\ framework.at = "stopped"
    /\ framework.n = 2
    /\ framework.emitted = 1
    /\ FailedToInitialize = {"system_metrics_collector", "log_file_collector", "threshold_detector"}
    /\ framework.initialized[1].outcome = "raised"
    /\ framework.initialized[2].outcome = "False"
    /\ PluginsOf(EventsOf("collect_metrics")) = Collectors
    /\ PluginsOf(EventsOf("detect_problems")) = Detectors
    /\ framework.cleaned[1].raised
    /\ PluginsOf(framework.cleaned) = Plugins

====
